---- MODULE Spec2Model ----
(***************************************************************************)
(* Model of the policy gate (query_validator) and of the guarded HTTP      *)
(* client (GuardedAsyncClient.request) of                                  *)
(* src/mcp_agents/servicenow_table_sse_server.py.                          *)
(*                                                                         *)
(* Every request slot runs GuardedAsyncClient.request as a coroutine of    *)
(* one event loop.  query_validator is a synchronous function, so the      *)
(* coroutine keeps the loop from line 108 until the await of line 137.     *)
(* The embedding backend, the Chroma index, the oracle and the underlying  *)
(* transport are external: each of their outcomes (a value or an           *)
(* exception) is a nondeterministic choice.                                *)
(*                                                                         *)
(* Three further parts of the repository have a specification of their     *)
(* own: the SERVICENOW_VERIFY_SSL setting of the six MCP server scripts    *)
(* (SpecSSL), the start and --stop runs of src/start_system.py (SpecStop)  *)
(* and observability.init_observability (SpecObs).                         *)
(***************************************************************************)
EXTENDS Integers, Sequences, FiniteSets, TLC

VARIABLES
    index,          \* chunks stored in the "validation_policy" collection
    obsInit,        \* observability._observability_initialized
    loop,           \* the coroutine that runs on the event loop, or "free"
    pc,             \* per request: position in request / query_validator
    call,           \* per request: the arguments request() was called with
    query,          \* per request: user_query handed to query_validator
    docs,           \* per request: result of similarity_search
    context,        \* per request: the context block of the system prompt
    raw,            \* per request: the oracle's structured output as sent
    parsed,         \* per request: response.output_parsed
    gateReturn,     \* per request: the value query_validator returned
    sent,           \* per request: calls the underlying transport received
    transportResult,\* per request: what the underlying transport answered
    outcome,        \* per request: what request() returned or raised
    events,         \* per request: log records and external calls, in order
    sslPc,          \* MCP server script: position in main()
    sslServer,      \* MCP server script: which of the six scripts runs
    sslEnv,         \* MCP server script: SERVICENOW_VERIFY_SSL after load_dotenv
    verifySsl,      \* MCP server script: the local VERIFY_SSL
    clientVerify,   \* MCP server script: verify= of the httpx client built
    runPc,          \* start_system.py, per mode: position in main()
    plan,           \* start_system.py: components start_system will launch
    processes,      \* start_system.py, per mode: keys of manager.processes, in order
    cursor,         \* start_system.py, per mode: position of stop_system's loop
    startOk,        \* start_system.py: success_count == total_components so far
    starts,         \* number of start runs made
    child,          \* per component: the child process last launched for it
    stopTargets,    \* children that were running when --stop was invoked
    waiting,        \* start_system.py, per mode: stop_system is in process.wait
    handlerReturn,  \* start_system.py, per mode: where signal_handler's exit leads
    pidDirs,        \* PID directories that exist in the working directory
    startedBy,      \* the startup script whose services run, or "none"
    statusPc,       \* status_servicenow_system.py: position
    statusCli,      \* status_servicenow_system.py: --transport, or NoName
    statusEnv,      \* status_servicenow_system.py: SERVICENOW_TRANSPORT
    statusPidDir,   \* status_servicenow_system.py: PID_DIR
    transport,      \* status_servicenow_system.py: main's transport
    healthPath,     \* status_servicenow_system.py: main's path
    script,         \* the startup script that runs: "none", "sse" or "daemon"
    launchPc,       \* the startup script's position
    launchIdx,      \* the service the position is about, an index of LaunchServices
    svc,            \* per service: the state of its process and the signals sent to it
    launched,       \* the services this run spawned
    observed,       \* per service: the result of this run's post-launch check
    success,        \* start_servicenow_system: table_success, knowledge_success, ...
    sseProcesses,   \* start_servicenow_sse_system: the module's list processes
    cleanupCursor,  \* cleanup_processes: index of proc in processes
    cleanupWaiting, \* cleanup_processes: in proc.wait(timeout=5)
    inHandler,      \* start_servicenow_sse_system: signal_handler runs
    interruptedIn,  \* where SIGINT interrupted main: "outside", "try" or "finally"
    launchRc,       \* how the run ended: "none", "0", "1" or "sigint"
    pidFiles,       \* the services whose PID file exists in .servicenow_pids
    procs,          \* the process table: per PID its state, who started it, signals
    pidFileOf,      \* per service the PID in its PID file, or NoPid
    daemonPc,       \* stop_servicenow_system.main: position
    daemonIdx,      \* stop_servicenow_system.main: index of the service in services
    polls,          \* kill_process_gracefully: liveness polls done since SIGTERM
    entryPids,      \* the PIDs the PID files named when main began
    entryState,     \* what the latest kill_process_gracefully found at entry
    trace,          \* what the latest kill_process_gracefully sent and polled
    daemonRc,       \* stop_servicenow_system.main: return value, or "none"
    obsPc,          \* init_observability: position in the current call
    obsArg,         \* init_observability: service_name of the current call
    obsCalls,       \* number of init_observability calls made
    obsLogger,      \* observability._logger (0 is None, n the n-th logger built)
    otelServiceName,\* os.environ["OTEL_SERVICE_NAME"]
    configured,     \* per part of the stack: how often it was configured
    serviceNames,   \* values written to OTEL_SERVICE_NAME, in order
    obsReturns      \* loggers returned by the calls that returned, in order

requestVars == <<loop, pc, call, query, docs, context, raw, parsed, gateReturn,
                 sent, transportResult, outcome, events>>

sslVars == <<sslPc, sslServer, sslEnv, verifySsl, clientVerify>>

stopVars == <<runPc, plan, processes, cursor, startOk, starts, child, stopTargets,
              waiting, handlerReturn>>

statusVars == <<pidDirs, startedBy, statusPc, statusCli, statusEnv, statusPidDir,
                transport, healthPath>>

launchVars == <<script, launchPc, launchIdx, svc, launched, observed, success,
                sseProcesses, cleanupCursor, cleanupWaiting, inHandler, interruptedIn,
                launchRc, pidFiles>>

daemonVars == <<procs, pidFileOf, daemonPc, daemonIdx, polls, entryPids, entryState,
                trace, daemonRc>>

obsVars == <<obsPc, obsArg, obsCalls, obsLogger, otelServiceName, configured,
             serviceNames, obsReturns>>

\* what the gate and the guarded client never touch
otherVars == <<sslVars, stopVars, obsVars, statusVars, launchVars, daemonVars>>

vars == <<index, obsInit, requestVars, otherVars>>

----------------------------------------------------------------------------
(* Bounds and program constants *)

\* largest number of chunks the persisted index holds in the model
MaxChunks == 5

\* k of similarity_search(user_query, k=4)
TopK == 4

\* the coroutines of request() that may be in flight on the event loop
Reqs == {"r1", "r2"}

\* largest number of start runs of start_system.py in a behaviour
MaxStarts == 2

\* largest number of init_observability calls in a behaviour
MaxObsCalls == 3

----------------------------------------------------------------------------
(* Values *)

None == [type |-> "NoneType"]

\* Python truthiness of the values kwargs.get("json") can yield:
\* None, {} and 0 are falsy, a non-empty dict is truthy.
JsonNone    == "None"
JsonEmpty   == "{}"
JsonZero    == "0"
JsonPayload == "{'state': '6'}"

\* a body passed by another request argument (content=, data=, files=)
OtherNone    == "None"
OtherPayload == "state=6"

MkCall(m, u, a, j, o) ==
    [method |-> m, url |-> u, args |-> a, json |-> j, other |-> o]

\* the calls the model issues through the guarded client
Calls ==
    { MkCall("GET",    "/api/now/table/incident?sysparm_limit=1", <<>>, JsonNone, OtherNone),
      MkCall("POST",   "/api/now/table/incident", <<>>, JsonPayload, OtherNone),
      MkCall("POST",   "/api/now/table/incident", <<>>, JsonEmpty, OtherNone),
      MkCall("DELETE", "/api/now/table/incident/123", <<>>, JsonZero, OtherNone),
      MkCall("POST",   "/api/now/table/incident", <<>>, JsonNone, OtherPayload),
      MkCall("GET",    "/api/now/table/incident?sysparm_limit=1", <<"extra">>, JsonNone, OtherNone) }

NoCall == MkCall("", "", <<>>, JsonNone, OtherNone)

\* reason texts the oracle may produce
Reasons == {"", "method not allowed by policy"}

\* a field of the oracle's structured output that is absent
Missing == "<missing>"


PyBool(b) == [type |-> "bool", value |-> b]

NoValue == [type |-> "NoValue"]

NoQuery == [method |-> "", url |-> "", body |-> ""]

NoOutcome == [kind |-> "none"]

NoRaw == [approval |-> "<none>", reason |-> "<none>"]

NoContext == [sep |-> "", texts |-> <<>>]

Returned(v) == [kind |-> "returned", value |-> v]

Raised(t, m) == [kind |-> "raised", type |-> t, msg |-> m]

\* what the underlying transport answers
Responses == {"200 OK", "403 Forbidden"}

\* exceptions of the underlying transport (httpx)
TransportErrors == {"ConnectError"}

\* exceptions of openai_client.responses.parse
OracleErrors == {"APITimeoutError", "APIConnectionError"}

Log(m) == <<"log", m>>

EmbeddingCall == <<"embedding_call", "">>

IndexQuery == <<"index_query", "">>

OracleCallEvent == <<"oracle_call", "">>

TransportRequest == <<"transport_request", "">>

GateCall == <<"gate_call", "">>

\* the six MCP server scripts
Servers ==
    {"servicenow_table_http_server", "servicenow_knowledge_http_server",
     "servicenow_table_sse_server", "servicenow_knowledge_sse_server",
     "mcp_agents/servicenow_table_sse_server",
     "mcp_agents/servicenow_knowledge_sse_server"}

\* the scripts whose client is built with the literal verify=False
HardCodedServers == {"servicenow_knowledge_http_server", "servicenow_table_sse_server"}

\* an environment variable that is not set
Unset == "<unset>"

\* values of SERVICENOW_VERIFY_SSL
EnvValues ==
    {Unset, "false", "FALSE", "False", "0", "no", "No", "true", "TRUE", "1",
     "yes", "off", ""}

NoServer == "<none>"

\* discover_mcp_agents: the scripts of src/mcp_agents
Agents == <<"servicenow_knowledge_sse_server", "servicenow_table_sse_server">>

MagenticUi == "magentic-ui"

Components == {Agents[i] : i \in 1..Len(Agents)} \cup {MagenticUi}

\* the two ways start_system.py is run
Modes == {"start", "stop"}

NoChild == [st |-> "none", run |-> 0, sigs |-> <<>>]

\* positions of main() that are inside a stop_system call
StopSystemPcs == {"try_stop", "stop_system", "handler"}

\* the services of the ServiceNow startup scripts, in launch order
LaunchServices == <<"table", "knowledge", "ui">>

McpServers == {"table", "knowledge"}

LaunchNames == McpServers \cup {"ui"}

\* the PIDs of the process table
Pids == {101, 102, 103}

\* read_pid_file returns None
NoPid == 0

\* kill_process_gracefully(pid, name, timeout=10)
Timeout == 10

\* an argument that is None
NoName == "<None>"

\* the PID directory of the three startup and shutdown scripts
ServicenowPids == ".servicenow_pids"

\* the directory _find_pid_dir expects of the HTTP startup script
DotPids == ".pids"

\* values of SERVICENOW_TRANSPORT
TransportEnvValues == {Unset, "", "http", "HTTP", "sse", "SSE", "stdio"}


ServiceNameArgs ==
    {NoName, "servicenow-table-api-sse", "service-now-table-api-guardedClient"}

\* the parts of the stack init_observability configures
Parts == {"logging", "tracing", "metrics", "instrumentation", "profiling", "prometheus"}

----------------------------------------------------------------------------
(* Pure functions of the source *)

\* Python truth value of kwargs.get("json")
Truthy(j) == j \notin {JsonNone, JsonEmpty, JsonZero}

\* body = kwargs.get("json"); if not body: body = {}
Body(c) == IF Truthy(c.json) THEN c.json ELSE "{}"

\* the f-string of lines 122-130: str(method), str(url), str(body)
Render(c) == [method |-> c.method, url |-> c.url, body |-> Body(c)]

\* distance of a chunk's embedding from the query's embedding; the embedding
\* model is external, the model only needs an order that depends on the query
Distance(q, c) == IF q.method = "GET" THEN c ELSE 0 - c

RECURSIVE Nearest(_, _, _)
\* the k chunks of S nearest to q, nearest first
Nearest(q, S, k) ==
    IF k = 0 \/ S = {} THEN <<>>
    ELSE LET c == CHOOSE x \in S : \A y \in S : Distance(q, x) <= Distance(q, y)
         IN  <<c>> \o Nearest(q, S \ {c}, k - 1)

\* faulty variant: only the three nearest chunks are asked for
SimilaritySearchTopThree(q, idx) == Nearest(q, idx, TopK - 1)

\* vectorstore.similarity_search(user_query, k=4)
SimilaritySearch(q, idx) == Nearest(q, idx, TopK)

\* doc.page_content of a stored chunk
ChunkText(c) == <<"page_content", c>>

\* context = "\n\n".join([doc.page_content for doc in docs])
Join(ds) == [sep |-> "\n\n", texts |-> [i \in 1..Len(ds) |-> ChunkText(ds[i])]]

\* faulty variant: the query is stored into the collection it searches
IndexAfterQueryUpsert(idx) == idx \cup {Cardinality(idx) + 1}

\* similarity_search only reads the collection
IndexAfterQuery(idx) == idx

\* faulty variant: a failed search is tried a second time
SearchEventsRetried == <<EmbeddingCall, IndexQuery, IndexQuery>>

\* line 59: one embedding request, then one query of the collection
SearchEvents == <<EmbeddingCall, IndexQuery>>

\* faulty variant: the reason is not logged
ReasonRecordOmitted(p) == <<>>

\* logger.info(response.output_parsed.reason)
ReasonRecord(p) == <<Log(p.reason)>>

\* faulty variant: a missing approval field counts as an approval
ParseDefaultApprove(a, s) ==
    [approval |-> IF a = Missing THEN TRUE ELSE a = "true",
     reason   |-> IF s = Missing THEN "" ELSE s]

\* class Approval(BaseModel): approval: bool = False; reason: str = ""
Parse(a, s) ==
    [approval |-> IF a = Missing THEN FALSE ELSE a = "true",
     reason   |-> IF s = Missing THEN "" ELSE s]

\* faulty variant: the "not" of line 134 is dropped
GateBlocksNegationDropped(ret) == ret.value

\* if not query_validator(user_query): raise ...
GateBlocks(ret) == ~ ret.value

\* faulty variant: the rendered body is forwarded in place of the caller's json
ForwardedRebuilt(c) ==
    [method |-> c.method, url |-> c.url, args |-> c.args,
     json |-> Body(c), other |-> c.other]

\* super().request(method, url, *args, **kwargs)
Forwarded(c) ==
    [method |-> c.method, url |-> c.url, args |-> c.args,
     json |-> c.json, other |-> c.other]

\* return await super().request(...): the result is handed on as it is
Deliver(res) == res


\* str.lower() on the values of EnvValues
Lower(v) ==
    CASE v = "FALSE" -> "false"
      [] v = "False" -> "false"
      [] v = "No"    -> "no"
      [] v = "TRUE"  -> "true"
      [] v = "HTTP"  -> "http"
      [] v = "SSE"   -> "sse"
      [] OTHER       -> v

\* os.getenv(name, default)
Getenv(v, default) == IF v = Unset THEN default ELSE v

\* _find_pid_dir: the first of .servicenow_pids and .pids that exists,
\* .servicenow_pids if neither does
FindPidDir(dirs) ==
    IF ServicenowPids \in dirs THEN ServicenowPids
    ELSE IF DotPids \in dirs THEN DotPids
    ELSE ServicenowPids

\* _determine_transport(cli_choice), cli_choice = NoName standing for None
DetermineTransport(cli, env, dir) ==
    IF cli # NoName THEN cli
    ELSE IF Lower(Getenv(env, "")) \in {"http", "sse"} THEN Lower(Getenv(env, ""))
    ELSE IF dir = DotPids THEN "http" ELSE "sse"

\* path = "/mcp/" if transport == "http" else "/sse"
HealthPath(t) == IF t = "http" THEN "/mcp/" ELSE "/sse"

\* os.getenv('SERVICENOW_VERIFY_SSL', 'true').lower() not in ('false', '0', 'no')
VerifySsl(v) == Lower(Getenv(v, "true")) \notin {"false", "0", "no"}

----------------------------------------------------------------------------
(* Initial state *)

\* no request is in flight
RequestsIdle ==
    /\ loop = "free"
    /\ pc = [r \in Reqs |-> "idle"]
    /\ call = [r \in Reqs |-> NoCall]
    /\ query = [r \in Reqs |-> NoQuery]
    /\ docs = [r \in Reqs |-> <<>>]
    /\ context = [r \in Reqs |-> NoContext]
    /\ raw = [r \in Reqs |-> NoRaw]
    /\ parsed = [r \in Reqs |-> None]
    /\ gateReturn = [r \in Reqs |-> NoValue]
    /\ sent = [r \in Reqs |-> <<>>]
    /\ transportResult = [r \in Reqs |-> NoOutcome]
    /\ outcome = [r \in Reqs |-> NoOutcome]
    /\ events = [r \in Reqs |-> <<>>]

\* no MCP server script runs
SslInit ==
    /\ sslPc = "stopped"
    /\ sslServer = NoServer
    /\ sslEnv = Unset
    /\ verifySsl = NoValue
    /\ clientVerify = NoValue

\* start_system.py does not run and has launched nothing
StopInit ==
    /\ runPc = [m \in Modes |-> "off"]
    /\ plan = <<>>
    /\ processes = [m \in Modes |-> <<>>]
    /\ cursor = [m \in Modes |-> 0]
    /\ startOk = TRUE
    /\ starts = 0
    /\ child = [p \in Components |-> NoChild]
    /\ stopTargets = {}
    /\ waiting = [m \in Modes |-> FALSE]
    /\ handlerReturn = [m \in Modes |-> "none"]

\* no PID directory, no services, the status checker not running
StatusInit ==
    /\ pidDirs = {}
    /\ startedBy = "none"
    /\ statusPc = "off"
    /\ statusCli = NoName
    /\ statusEnv = Unset
    /\ statusPidDir = ServicenowPids
    /\ transport = "none"
    /\ healthPath = "none"

\* no startup script runs, no service process, no PID file
LaunchInit ==
    /\ script = "none"
    /\ launchPc = "idle"
    /\ launchIdx = 1
    /\ svc = [s \in LaunchNames |-> [st |-> "none", sigs |-> <<>>]]
    /\ launched = {}
    /\ observed = [s \in LaunchNames |-> "unchecked"]
    /\ success = [s \in LaunchNames |-> FALSE]
    /\ sseProcesses = <<>>
    /\ cleanupCursor = 1
    /\ cleanupWaiting = FALSE
    /\ inHandler = FALSE
    /\ interruptedIn = "none"
    /\ launchRc = "none"
    /\ pidFiles = {}

\* no process, no PID file, the shutdown script not running
DaemonInit ==
    /\ procs = [p \in Pids |-> [st |-> "free", owner |-> "none", sigs |-> <<>>]]
    /\ pidFileOf = [s \in LaunchNames |-> NoPid]
    /\ daemonPc = "idle"
    /\ daemonIdx = 1
    /\ polls = 0
    /\ entryPids = {}
    /\ entryState = "unread"
    /\ trace = <<>>
    /\ daemonRc = "none"

\* observability.py as imported: lines 35-39
ObservabilityInit ==
    /\ obsPc = "idle"
    /\ obsArg = NoName
    /\ obsCalls = 0
    /\ obsLogger = 0
    /\ otelServiceName = Unset
    /\ configured = [c \in Parts |-> 0]
    /\ serviceNames = <<>>
    /\ obsReturns = <<>>

Init ==
    /\ index \in {1..n : n \in 0..MaxChunks}
    /\ obsInit \in BOOLEAN
    /\ RequestsIdle
    /\ SslInit
    /\ StopInit
    /\ ObservabilityInit
    /\ StatusInit
    /\ LaunchInit
    /\ DaemonInit

\* the processes outside the gate start with nothing in flight anywhere
InitOps ==
    /\ index = {}
    /\ obsInit = FALSE
    /\ RequestsIdle
    /\ SslInit
    /\ StopInit
    /\ ObservabilityInit
    /\ StatusInit
    /\ LaunchInit
    /\ DaemonInit

----------------------------------------------------------------------------
(* Control flow helpers *)

\* faulty variant: an exception raised on the way is swallowed and the call forwarded
RaiseSwallowed(r, t, m) ==
    /\ pc' = [pc EXCEPT ![r] = "awaiting"]
    /\ sent' = [sent EXCEPT ![r] = Append(@, Forwarded(call[r]))]
    /\ loop' = "free"
    /\ UNCHANGED outcome

\* an exception raised in request() or in query_validator() is caught nowhere:
\* it leaves request() and the coroutine ends without reaching line 137
Raise(r, t, m) ==
    /\ pc' = [pc EXCEPT ![r] = "done"]
    /\ outcome' = [outcome EXCEPT ![r] = Raised(t, m)]
    /\ loop' = "free"
    /\ UNCHANGED sent

Emit(r, es) == events' = [events EXCEPT ![r] = @ \o es]

----------------------------------------------------------------------------
(* GuardedAsyncClient.request *)

\* a caller (FastMCP) calls client.request(method, url, *args, **kwargs)
Call(r) ==
    /\ pc[r] = "idle"
    /\ \E c \in Calls : call' = [call EXCEPT ![r] = c]
    /\ pc' = [pc EXCEPT ![r] = "called"]
    /\ UNCHANGED <<index, obsInit, loop, query, docs, context, raw, parsed, gateReturn,
                   sent, transportResult, outcome, events>>
    /\ UNCHANGED otherVars

\* line 108: init_observability returns the logger
RequestInitObservability(r) ==
    /\ pc[r] = "called"
    /\ loop = "free"
    /\ loop' = r
    /\ obsInit' = TRUE
    /\ pc' = [pc EXCEPT ![r] = "l114"]
    /\ UNCHANGED <<index, call, query, docs, context, raw, parsed, gateReturn, sent,
                   transportResult, outcome, events>>
    /\ UNCHANGED otherVars

\* line 108: the first initialisation fails and init_observability re-raises
RequestInitObservabilityRaise(r) ==
    /\ pc[r] = "called"
    /\ loop = "free"
    /\ ~ obsInit
    /\ Raise(r, "Exception", "observability_init_failed")
    /\ UNCHANGED <<index, obsInit, call, query, docs, context, raw, parsed, gateReturn,
                   transportResult, events>>
    /\ UNCHANGED otherVars

\* lines 114-134: body, user_query, the log record, the call of the gate
BuildQuery(r) ==
    /\ pc[r] = "l114"
    /\ loop = r
    /\ query' = [query EXCEPT ![r] = Render(call[r])]
    /\ Emit(r, <<Log("Body of validation check"), GateCall>>)
    /\ pc' = [pc EXCEPT ![r] = "qv_l32"]
    /\ UNCHANGED <<index, obsInit, loop, call, docs, context, raw, parsed, gateReturn,
                   sent, transportResult, outcome>>
    /\ UNCHANGED otherVars

\* lines 134-135: the gate returned a falsy value
GateDenied(r) ==
    /\ pc[r] = "l134"
    /\ loop = r
    /\ GateBlocks(gateReturn[r])
    /\ Raise(r, "RuntimeError", "Invalid User Query")
    /\ UNCHANGED <<index, obsInit, call, query, docs, context, raw, parsed, gateReturn,
                   transportResult, events>>
    /\ UNCHANGED otherVars

\* lines 134, 137: the gate returned a truthy value; the call is handed to
\* httpx.AsyncClient.request and the coroutine awaits its result
Forward(r) ==
    /\ pc[r] = "l134"
    /\ loop = r
    /\ ~ GateBlocks(gateReturn[r])
    /\ sent' = [sent EXCEPT ![r] = Append(@, Forwarded(call[r]))]
    /\ Emit(r, <<TransportRequest>>)
    /\ loop' = "free"
    /\ pc' = [pc EXCEPT ![r] = "awaiting"]
    /\ UNCHANGED <<index, obsInit, call, query, docs, context, raw, parsed, gateReturn,
                   transportResult, outcome>>
    /\ UNCHANGED otherVars

\* line 137: the transport answers and request() returns the answer
TransportRespond(r) ==
    /\ pc[r] = "awaiting"
    /\ sent[r][Len(sent[r])].args = <<>>
    /\ \E resp \in Responses :
         /\ transportResult' = [transportResult EXCEPT ![r] = Returned(resp)]
         /\ outcome' = [outcome EXCEPT ![r] = Deliver(Returned(resp))]
    /\ pc' = [pc EXCEPT ![r] = "done"]
    /\ UNCHANGED <<index, obsInit, loop, call, query, docs, context, raw, parsed,
                   gateReturn, sent, events>>
    /\ UNCHANGED otherVars

\* line 137: the transport raises (keyword-only parameters given positionally
\* are a TypeError) and the exception leaves request()
TransportRaise(r) ==
    /\ pc[r] = "awaiting"
    /\ \E t \in (IF sent[r][Len(sent[r])].args = <<>>
                 THEN TransportErrors ELSE {"TypeError"}) :
         /\ transportResult' = [transportResult EXCEPT ![r] = Raised(t, "transport")]
         /\ outcome' = [outcome EXCEPT ![r] = Deliver(Raised(t, "transport"))]
    /\ pc' = [pc EXCEPT ![r] = "done"]
    /\ UNCHANGED <<index, obsInit, loop, call, query, docs, context, raw, parsed,
                   gateReturn, sent, events>>
    /\ UNCHANGED otherVars

\* the caller has its result; the slot serves the next call
Finish(r) ==
    /\ pc[r] = "done"
    /\ pc' = [pc EXCEPT ![r] = "idle"]
    /\ call' = [call EXCEPT ![r] = NoCall]
    /\ query' = [query EXCEPT ![r] = NoQuery]
    /\ docs' = [docs EXCEPT ![r] = <<>>]
    /\ context' = [context EXCEPT ![r] = NoContext]
    /\ raw' = [raw EXCEPT ![r] = NoRaw]
    /\ parsed' = [parsed EXCEPT ![r] = None]
    /\ gateReturn' = [gateReturn EXCEPT ![r] = NoValue]
    /\ sent' = [sent EXCEPT ![r] = <<>>]
    /\ transportResult' = [transportResult EXCEPT ![r] = NoOutcome]
    /\ outcome' = [outcome EXCEPT ![r] = NoOutcome]
    /\ events' = [events EXCEPT ![r] = <<>>]
    /\ UNCHANGED <<index, obsInit, loop>>
    /\ UNCHANGED otherVars


----------------------------------------------------------------------------
(* query_validator *)

\* lines 32-53: logger, OpenAI client, embeddings and vector store are built
ValidatorSetup(r) ==
    /\ pc[r] = "qv_l32"
    /\ loop = r
    /\ Emit(r, <<Log("openai client initialized"), Log("Vector store initialized")>>)
    /\ pc' = [pc EXCEPT ![r] = "qv_l59"]
    /\ UNCHANGED <<index, obsInit, loop, call, query, docs, context, raw, parsed,
                   gateReturn, sent, transportResult, outcome>>
    /\ UNCHANGED otherVars

\* line 38: OpenAI(api_key=None) raises when OPENAI_API_KEY is not set
ValidatorSetupRaise(r) ==
    /\ pc[r] = "qv_l32"
    /\ loop = r
    /\ Raise(r, "OpenAIError", "api_key must be set")
    /\ UNCHANGED <<index, obsInit, call, query, docs, context, raw, parsed, gateReturn,
                   transportResult, events>>
    /\ UNCHANGED otherVars

\* faulty variant: the query text is kept in one place shared by all requests,
\* so a search may run with the text another request left there
SimilaritySearchDoneShared(r) ==
    LET q == IF \E o \in Reqs \ {r} : query[o] # NoQuery
             THEN query[CHOOSE o \in Reqs \ {r} : query[o] # NoQuery]
             ELSE query[r]
    IN  /\ pc[r] = "qv_l59"
        /\ loop = r
        /\ docs' = [docs EXCEPT ![r] = SimilaritySearch(q, index)]
        /\ context' = [context EXCEPT ![r] = Join(SimilaritySearch(q, index))]
        /\ index' = IndexAfterQuery(index)
        /\ Emit(r, SearchEvents \o <<Log("Similarity search done")>>)
        /\ pc' = [pc EXCEPT ![r] = "qv_l91"]
        /\ UNCHANGED <<obsInit, loop, call, query, raw, parsed, gateReturn,
                       sent, transportResult, outcome>>
        /\ UNCHANGED otherVars

\* lines 59-64: the query is embedded, the index answers with the nearest
\* chunks and their texts are joined into the context
SimilaritySearchDone(r) ==
    /\ pc[r] = "qv_l59"
    /\ loop = r
    /\ docs' = [docs EXCEPT ![r] = SimilaritySearch(query[r], index)]
    /\ context' = [context EXCEPT ![r] = Join(SimilaritySearch(query[r], index))]
    /\ index' = IndexAfterQuery(index)
    /\ Emit(r, SearchEvents \o <<Log("Similarity search done")>>)
    /\ pc' = [pc EXCEPT ![r] = "qv_l91"]
    /\ UNCHANGED <<obsInit, loop, call, query, raw, parsed, gateReturn,
                   sent, transportResult, outcome>>
    /\ UNCHANGED otherVars

\* line 59: the embedding backend fails; similarity_search raises
EmbeddingRaise(r) ==
    /\ pc[r] = "qv_l59"
    /\ loop = r
    /\ Emit(r, <<EmbeddingCall>>)
    /\ Raise(r, "APIConnectionError", "embedding request failed")
    /\ UNCHANGED <<index, obsInit, call, query, docs, context, raw, parsed, gateReturn,
                   transportResult>>
    /\ UNCHANGED otherVars

\* line 59: the index cannot be read; similarity_search raises
IndexQueryRaise(r) ==
    /\ pc[r] = "qv_l59"
    /\ loop = r
    /\ Emit(r, SearchEvents)
    /\ Raise(r, "ChromaError", "collection unavailable")
    /\ UNCHANGED <<index, obsInit, call, query, docs, context, raw, parsed, gateReturn,
                   transportResult>>
    /\ UNCHANGED otherVars

\* faulty variant: the oracle call is repeated
OracleEventsRetried ==
    <<Log("System prompt built"), Log("Context built"), OracleCallEvent,
      OracleCallEvent>>

\* lines 74-98: the system prompt, then the one oracle call
OracleEvents ==
    <<Log("System prompt built"), Log("Context built"), OracleCallEvent>>

\* lines 91-100: the oracle answers with structured output that parses
OracleAnswer(r) ==
    /\ pc[r] = "qv_l91"
    /\ loop = r
    /\ \E a \in {Missing, "true", "false"}, s \in {Missing} \cup Reasons :
         /\ raw' = [raw EXCEPT ![r] = [approval |-> a, reason |-> s]]
         /\ parsed' = [parsed EXCEPT ![r] = Parse(a, s)]
    /\ Emit(r, OracleEvents \o <<Log("openai response built")>>)
    /\ pc' = [pc EXCEPT ![r] = "qv_l102"]
    /\ UNCHANGED <<index, obsInit, loop, call, query, docs, context, gateReturn,
                   sent, transportResult, outcome>>
    /\ UNCHANGED otherVars

\* lines 91-100: the oracle refuses; output_parsed is None
OracleRefusal(r) ==
    /\ pc[r] = "qv_l91"
    /\ loop = r
    /\ parsed' = [parsed EXCEPT ![r] = None]
    /\ Emit(r, OracleEvents \o <<Log("openai response built")>>)
    /\ pc' = [pc EXCEPT ![r] = "qv_l102"]
    /\ UNCHANGED <<index, obsInit, loop, call, query, docs, context, raw, gateReturn,
                   sent, transportResult, outcome>>
    /\ UNCHANGED otherVars

\* line 91: the oracle call times out or fails; responses.parse raises
OracleRaise(r) ==
    /\ pc[r] = "qv_l91"
    /\ loop = r
    /\ Emit(r, OracleEvents)
    /\ \E t \in OracleErrors : Raise(r, t, "oracle request failed")
    /\ UNCHANGED <<index, obsInit, call, query, docs, context, raw, parsed, gateReturn,
                   transportResult>>
    /\ UNCHANGED otherVars

\* line 91: the oracle's text is no valid Approval; responses.parse raises
OracleMalformed(r) ==
    /\ pc[r] = "qv_l91"
    /\ loop = r
    /\ Emit(r, OracleEvents)
    /\ Raise(r, "ValidationError", "invalid structured output")
    /\ UNCHANGED <<index, obsInit, call, query, docs, context, raw, parsed, gateReturn,
                   transportResult>>
    /\ UNCHANGED otherVars

\* faulty variant: the context block is shared and grows with every evaluation
OracleInputShared(r) ==
    [system |-> [sep |-> context[r].sep,
                 texts |-> context[r].texts \o
                           context[CHOOSE o \in Reqs : o # r].texts],
     user   |-> query[r]]

\* lines 93-96: the system prompt, which embeds the context, and the query
OracleInput(r) == [system |-> context[r], user |-> query[r]]

\* a deterministic oracle: its structured output is a function of its input
DetOracle(in) ==
    IF Len(in.system.texts) = 0
    THEN [approval |-> Missing, reason |-> ""]
    ELSE IF in.user.method = "GET" /\ Len(in.system.texts) <= TopK
    THEN [approval |-> "true", reason |-> ""]
    ELSE IF in.user.body = "{}"
    THEN [approval |-> "false", reason |-> "method not allowed by policy"]
    ELSE [approval |-> "true", reason |-> Missing]

\* lines 91-100 with a deterministic oracle that answers every call
DetOracleAnswer(r) ==
    /\ pc[r] = "qv_l91"
    /\ loop = r
    /\ raw' = [raw EXCEPT ![r] = DetOracle(OracleInput(r))]
    /\ parsed' = [parsed EXCEPT ![r] =
                     Parse(DetOracle(OracleInput(r)).approval,
                           DetOracle(OracleInput(r)).reason)]
    /\ Emit(r, OracleEvents \o <<Log("openai response built")>>)
    /\ pc' = [pc EXCEPT ![r] = "qv_l102"]
    /\ UNCHANGED <<index, obsInit, loop, call, query, docs, context, gateReturn,
                   sent, transportResult, outcome>>
    /\ UNCHANGED otherVars

\* lines 102-104: the reason is logged and the approval flag alone returned
ValidatorReturn(r) ==
    /\ pc[r] = "qv_l102"
    /\ loop = r
    /\ parsed[r] # None
    /\ Emit(r, ReasonRecord(parsed[r]))
    /\ gateReturn' = [gateReturn EXCEPT ![r] = PyBool(parsed[r].approval)]
    /\ pc' = [pc EXCEPT ![r] = "l134"]
    /\ UNCHANGED <<index, obsInit, loop, call, query, docs, context, raw, parsed, sent,
                   transportResult, outcome>>
    /\ UNCHANGED otherVars

\* line 102: output_parsed is None, so reading .reason raises
ValidatorAttributeError(r) ==
    /\ pc[r] = "qv_l102"
    /\ loop = r
    /\ parsed[r] = None
    /\ Raise(r, "AttributeError", "'NoneType' object has no attribute 'reason'")
    /\ UNCHANGED <<index, obsInit, call, query, docs, context, raw, parsed, gateReturn,
                   transportResult, events>>
    /\ UNCHANGED otherVars

----------------------------------------------------------------------------
(* main() of the MCP server scripts: SERVICENOW_VERIFY_SSL *)

\* a server script is started in an environment; load_dotenv has run
StartServer(s, v) ==
    /\ sslPc = "stopped"
    /\ sslServer' = s
    /\ sslEnv' = v
    /\ sslPc' = "main"
    /\ UNCHANGED <<verifySsl, clientVerify>>
    /\ UNCHANGED <<index, obsInit, requestVars, stopVars, obsVars, statusVars, launchVars, daemonVars>>

\* VERIFY_SSL = os.getenv('SERVICENOW_VERIFY_SSL', 'true').lower() not in (...)
ReadVerifySsl ==
    /\ sslPc = "main"
    /\ sslServer \notin HardCodedServers
    /\ verifySsl' = PyBool(VerifySsl(sslEnv))
    /\ sslPc' = "configured"
    /\ UNCHANGED <<sslServer, sslEnv, clientVerify>>
    /\ UNCHANGED <<index, obsInit, requestVars, stopVars, obsVars, statusVars, launchVars, daemonVars>>

\* httpx.AsyncClient(..., verify=VERIFY_SSL, ...)
BuildClient ==
    /\ sslPc = "configured"
    /\ clientVerify' = verifySsl
    /\ sslPc' = "serving"
    /\ UNCHANGED <<sslServer, sslEnv, verifySsl>>
    /\ UNCHANGED <<index, obsInit, requestVars, stopVars, obsVars, statusVars, launchVars, daemonVars>>

\* httpx.AsyncClient(..., verify=False, ...): the variable is never read
BuildClientVerifyFalse ==
    /\ sslPc = "main"
    /\ sslServer \in HardCodedServers
    /\ clientVerify' = PyBool(FALSE)
    /\ sslPc' = "serving"
    /\ UNCHANGED <<sslServer, sslEnv, verifySsl>>
    /\ UNCHANGED <<index, obsInit, requestVars, stopVars, obsVars, statusVars, launchVars, daemonVars>>

\* the server process ends
StopServer ==
    /\ sslPc = "serving"
    /\ sslPc' = "stopped"
    /\ sslServer' = NoServer
    /\ sslEnv' = Unset
    /\ verifySsl' = NoValue
    /\ clientVerify' = NoValue
    /\ UNCHANGED <<index, obsInit, requestVars, stopVars, obsVars, statusVars, launchVars, daemonVars>>

----------------------------------------------------------------------------
(* start_system.py: a start run and a --stop run *)

\* the children that are running, each with the start run that launched it
RunningChildren == {<<p, child[p].run>> : p \in {c \in Components : child[c].st = "running"}}

\* what a child was sent, in order; a signal repeated at once is noted once
Sent(sigs, sig) ==
    IF Len(sigs) > 0 /\ sigs[Len(sigs)] = sig THEN sigs ELSE Append(sigs, sig)

\* process.poll() is None
PollIsNone(p) == child[p].st \in {"running", "terminating"}

\* main() without --stop: a new SystemManager, then start_system
InvokeStart ==
    /\ runPc["start"] = "off"
    /\ starts < MaxStarts
    /\ starts' = starts + 1
    /\ runPc' = [runPc EXCEPT !["start"] = "start_system"]
    /\ processes' = [processes EXCEPT !["start"] = <<>>]
    /\ \E enable_ui \in BOOLEAN :
           plan' = IF enable_ui THEN Append(Agents, MagenticUi) ELSE Agents
    /\ startOk' = TRUE
    /\ UNCHANGED <<cursor, child, stopTargets, waiting, handlerReturn>>
    /\ UNCHANGED <<index, obsInit, requestVars, sslVars, obsVars, statusVars, launchVars, daemonVars>>

\* start_mcp_agent / start_magentic_ui: Popen, processes[name] = process,
\* sleep, poll; the child is running at the poll or has already exited
StartComponent ==
    /\ runPc["start"] = "start_system"
    /\ Len(processes["start"]) < Len(plan)
    /\ LET p == plan[Len(processes["start"]) + 1]
       IN  /\ processes' = [processes EXCEPT !["start"] = Append(@, p)]
           /\ \E alive \in BOOLEAN :
                  /\ child' = [child EXCEPT ![p] =
                                  [st |-> IF alive THEN "running" ELSE "exited",
                                   run |-> starts, sigs |-> <<>>]]
                  /\ startOk' = (startOk /\ alive)
    /\ UNCHANGED <<runPc, plan, cursor, starts, stopTargets, waiting, handlerReturn>>
    /\ UNCHANGED <<index, obsInit, requestVars, sslVars, obsVars, statusVars, launchVars, daemonVars>>

\* start_system returns: on success main() enters its keep-alive loop,
\* otherwise sys.exit(1) reaches the finally clause and stop_system
StartSystemDone ==
    /\ runPc["start"] = "start_system"
    /\ Len(processes["start"]) = Len(plan)
    /\ runPc' = [runPc EXCEPT !["start"] =
                    IF startOk THEN "keepalive" ELSE "stop_system"]
    /\ cursor' = [cursor EXCEPT !["start"] = IF startOk THEN 0 ELSE 1]
    /\ UNCHANGED <<plan, processes, startOk, starts, child, stopTargets, waiting,
                   handlerReturn>>
    /\ UNCHANGED <<index, obsInit, requestVars, sslVars, obsVars, statusVars, launchVars, daemonVars>>

\* KeyboardInterrupt in the keep-alive loop: the finally clause calls stop_system
Interrupt ==
    /\ runPc["start"] = "keepalive"
    /\ runPc' = [runPc EXCEPT !["start"] = "stop_system"]
    /\ cursor' = [cursor EXCEPT !["start"] = 1]
    /\ UNCHANGED <<plan, processes, startOk, starts, child, stopTargets, waiting,
                   handlerReturn>>
    /\ UNCHANGED <<index, obsInit, requestVars, sslVars, obsVars, statusVars, launchVars, daemonVars>>

\* an unexpected exception in start_system or in the keep-alive loop:
\* except Exception, sys.exit(1), then the finally clause calls stop_system
UnexpectedException ==
    /\ runPc["start"] \in {"start_system", "keepalive"}
    /\ runPc' = [runPc EXCEPT !["start"] = "stop_system"]
    /\ cursor' = [cursor EXCEPT !["start"] = 1]
    /\ UNCHANGED <<plan, processes, startOk, starts, child, stopTargets, waiting,
                   handlerReturn>>
    /\ UNCHANGED <<index, obsInit, requestVars, sslVars, obsVars, statusVars, launchVars, daemonVars>>

\* SIGINT or SIGTERM: signal_handler calls stop_system and then sys.exit(0).
\* The SystemExit reaches the finally clause, or leaves main() when the
\* finally clause was already running, or is swallowed by a bare except of
\* check_system_health, after which the interrupted code goes on
Signal(m) ==
    /\ runPc[m] \in {"start_system", "keepalive"} \cup StopSystemPcs
    /\ runPc' = [runPc EXCEPT ![m] = "handler"]
    /\ cursor' = [cursor EXCEPT ![m] = 1]
    /\ waiting' = [waiting EXCEPT ![m] = FALSE]
    /\ \/ /\ runPc[m] \in {"start_system", "keepalive", "try_stop"}
          /\ handlerReturn' = [handlerReturn EXCEPT ![m] = "finally"]
       \/ /\ \/ runPc[m] = "keepalive"
             \/ runPc[m] = "start_system" /\ Len(processes[m]) = Len(plan)
          /\ handlerReturn' = [handlerReturn EXCEPT ![m] = runPc[m]]
       \/ /\ runPc[m] = "stop_system"
          /\ handlerReturn' = [handlerReturn EXCEPT ![m] = "exit"]
       \/ /\ runPc[m] = "handler"
          /\ UNCHANGED handlerReturn
    /\ UNCHANGED <<plan, processes, startOk, starts, child, stopTargets>>
    /\ UNCHANGED <<index, obsInit, requestVars, sslVars, obsVars, statusVars, launchVars, daemonVars>>

\* a child ends, on its own or on the SIGTERM it was sent
ChildExits(p) ==
    /\ PollIsNone(p)
    /\ child' = [child EXCEPT ![p].st = "exited"]
    /\ UNCHANGED <<runPc, plan, processes, cursor, startOk, starts, stopTargets,
                   waiting, handlerReturn>>
    /\ UNCHANGED <<index, obsInit, requestVars, sslVars, obsVars, statusVars, launchVars, daemonVars>>

\* main() with --stop: a new SystemManager, then stop_system at once
InvokeStop ==
    /\ runPc["stop"] = "off"
    /\ runPc' = [runPc EXCEPT !["stop"] = "try_stop"]
    /\ processes' = [processes EXCEPT !["stop"] = <<>>]
    /\ cursor' = [cursor EXCEPT !["stop"] = 1]
    /\ stopTargets' = RunningChildren
    /\ UNCHANGED <<plan, startOk, starts, child, waiting, handlerReturn>>
    /\ UNCHANGED <<index, obsInit, requestVars, sslVars, obsVars, statusVars, launchVars, daemonVars>>

\* faulty variant: a running entry is killed at once
StopTerminateKills(m) ==
    /\ runPc[m] \in StopSystemPcs
    /\ ~ waiting[m]
    /\ cursor[m] <= Len(processes[m])
    /\ PollIsNone(processes[m][cursor[m]])
    /\ child' = [child EXCEPT ![processes[m][cursor[m]]] =
                    [@ EXCEPT !.st = "exited", !.sigs = Append(@, "kill")]]
    /\ cursor' = [cursor EXCEPT ![m] = @ + 1]
    /\ UNCHANGED <<runPc, plan, processes, startOk, starts, stopTargets, waiting,
                   handlerReturn>>
    /\ UNCHANGED <<index, obsInit, requestVars, sslVars, obsVars, statusVars, launchVars, daemonVars>>

\* stop_system, one entry of self.processes that still runs: terminate(),
\* then wait(timeout=10)
StopTerminate(m) ==
    /\ runPc[m] \in StopSystemPcs
    /\ ~ waiting[m]
    /\ cursor[m] <= Len(processes[m])
    /\ PollIsNone(processes[m][cursor[m]])
    /\ child' = [child EXCEPT ![processes[m][cursor[m]]] =
                    [@ EXCEPT !.st = "terminating", !.sigs = Sent(@, "terminate")]]
    /\ waiting' = [waiting EXCEPT ![m] = TRUE]
    /\ UNCHANGED <<runPc, plan, processes, cursor, startOk, starts, stopTargets,
                   handlerReturn>>
    /\ UNCHANGED <<index, obsInit, requestVars, sslVars, obsVars, statusVars, launchVars, daemonVars>>

\* stop_system: wait(timeout=10) returns because the child has ended
StopWait(m) ==
    /\ runPc[m] \in StopSystemPcs
    /\ waiting[m]
    /\ child[processes[m][cursor[m]]].st = "exited"
    /\ waiting' = [waiting EXCEPT ![m] = FALSE]
    /\ cursor' = [cursor EXCEPT ![m] = @ + 1]
    /\ UNCHANGED <<runPc, plan, processes, startOk, starts, child, stopTargets,
                   handlerReturn>>
    /\ UNCHANGED <<index, obsInit, requestVars, sslVars, obsVars, statusVars, launchVars, daemonVars>>

\* stop_system: wait(timeout=10) raises TimeoutExpired; kill() and wait()
StopKill(m) ==
    /\ runPc[m] \in StopSystemPcs
    /\ waiting[m]
    /\ child[processes[m][cursor[m]]].st = "terminating"
    /\ child' = [child EXCEPT ![processes[m][cursor[m]]] =
                    [@ EXCEPT !.st = "exited", !.sigs = @ \o <<"timeout", "kill">>]]
    /\ waiting' = [waiting EXCEPT ![m] = FALSE]
    /\ cursor' = [cursor EXCEPT ![m] = @ + 1]
    /\ UNCHANGED <<runPc, plan, processes, startOk, starts, stopTargets,
                   handlerReturn>>
    /\ UNCHANGED <<index, obsInit, requestVars, sslVars, obsVars, statusVars, launchVars, daemonVars>>

\* stop_system, one entry whose poll() is not None: already stopped
StopAlready(m) ==
    /\ runPc[m] \in StopSystemPcs
    /\ ~ waiting[m]
    /\ cursor[m] <= Len(processes[m])
    /\ ~ PollIsNone(processes[m][cursor[m]])
    /\ cursor' = [cursor EXCEPT ![m] = @ + 1]
    /\ UNCHANGED <<runPc, plan, processes, startOk, starts, child, stopTargets,
                   waiting, handlerReturn>>
    /\ UNCHANGED <<index, obsInit, requestVars, sslVars, obsVars, statusVars, launchVars, daemonVars>>

\* stop_system has gone through self.processes and returns: the call of the
\* --stop branch is followed by the one of the finally clause, the one of the
\* finally clause by the end of main(), the one of signal_handler by sys.exit(0)
StopDone(m) ==
    /\ runPc[m] \in StopSystemPcs
    /\ ~ waiting[m]
    /\ cursor[m] > Len(processes[m])
    /\ runPc' = [runPc EXCEPT ![m] =
                    CASE runPc[m] = "try_stop" -> "stop_system"
                      [] runPc[m] = "stop_system" -> "exited"
                      [] handlerReturn[m] = "finally" -> "stop_system"
                      [] handlerReturn[m] = "exit" -> "exited"
                      [] OTHER -> handlerReturn[m]]
    /\ cursor' = [cursor EXCEPT ![m] = 1]
    /\ handlerReturn' = [handlerReturn EXCEPT ![m] =
                            IF runPc[m] = "handler" THEN "none" ELSE @]
    /\ UNCHANGED <<plan, processes, startOk, starts, child, stopTargets, waiting>>
    /\ UNCHANGED <<index, obsInit, requestVars, sslVars, obsVars, statusVars, launchVars, daemonVars>>

\* the run's process is gone and with it its manager and the Popen objects of
\* the children that have ended; start_system.py can be run again
Reap(m) ==
    /\ runPc[m] = "exited"
    /\ runPc' = [runPc EXCEPT ![m] = "off"]
    /\ processes' = [processes EXCEPT ![m] = <<>>]
    /\ cursor' = [cursor EXCEPT ![m] = 0]
    /\ stopTargets' = IF m = "stop" THEN {} ELSE stopTargets
    /\ plan' = IF m = "start" THEN <<>> ELSE plan
    /\ startOk' = IF m = "start" THEN TRUE ELSE startOk
    /\ child' = IF m = "start"
                THEN [p \in Components |->
                         IF PollIsNone(p) THEN child[p] ELSE NoChild]
                ELSE child
    /\ UNCHANGED <<starts, waiting, handlerReturn>>
    /\ UNCHANGED <<index, obsInit, requestVars, sslVars, obsVars, statusVars, launchVars, daemonVars>>

----------------------------------------------------------------------------
(* observability.init_observability *)

\* init_observability(service_name=n) is called
InitObservabilityCall(n) ==
    /\ obsPc = "idle"
    /\ obsCalls < MaxObsCalls
    /\ obsCalls' = obsCalls + 1
    /\ obsArg' = n
    /\ obsPc' = "l319"
    /\ UNCHANGED <<obsInit, obsLogger, otelServiceName, configured, serviceNames,
                   obsReturns>>
    /\ UNCHANGED <<index, requestVars, sslVars, stopVars, statusVars, launchVars, daemonVars>>

\* lines 319-320: already initialised, the stored logger is returned
InitObservabilityCached ==
    /\ obsPc = "l319"
    /\ obsInit
    /\ obsReturns' = Append(obsReturns, obsLogger)
    /\ obsPc' = "idle"
    /\ UNCHANGED <<obsInit, obsArg, obsCalls, obsLogger, otelServiceName, configured,
                   serviceNames>>
    /\ UNCHANGED <<index, requestVars, sslVars, stopVars, statusVars, launchVars, daemonVars>>

\* lines 323-335: the service name is written to the environment and
\* configure_structured_logging builds a new logger
ConfigureLogging ==
    /\ obsPc = "l319"
    /\ ~ obsInit
    /\ otelServiceName' = IF obsArg # NoName THEN obsArg ELSE otelServiceName
    /\ serviceNames' = IF obsArg # NoName THEN Append(serviceNames, obsArg)
                                           ELSE serviceNames
    /\ configured' = [configured EXCEPT !["logging"] = @ + 1]
    /\ obsLogger' = configured["logging"] + 1
    /\ obsPc' = "l340"
    /\ UNCHANGED <<obsInit, obsArg, obsCalls, obsReturns>>
    /\ UNCHANGED <<index, requestVars, sslVars, stopVars, statusVars, launchVars, daemonVars>>

\* line 340: configure_tracing returns
ConfigureTracing ==
    /\ obsPc = "l340"
    /\ configured' = [configured EXCEPT !["tracing"] = @ + 1]
    /\ obsPc' = "l341"
    /\ UNCHANGED <<obsInit, obsArg, obsCalls, obsLogger, otelServiceName,
                   serviceNames, obsReturns>>
    /\ UNCHANGED <<index, requestVars, sslVars, stopVars, statusVars, launchVars, daemonVars>>

\* line 341: configure_metrics returns
ConfigureMetrics ==
    /\ obsPc = "l341"
    /\ configured' = [configured EXCEPT !["metrics"] = @ + 1]
    /\ obsPc' = "l342"
    /\ UNCHANGED <<obsInit, obsArg, obsCalls, obsLogger, otelServiceName,
                   serviceNames, obsReturns>>
    /\ UNCHANGED <<index, requestVars, sslVars, stopVars, statusVars, launchVars, daemonVars>>

\* line 342: configure_auto_instrumentation returns
ConfigureAutoInstrumentation ==
    /\ obsPc = "l342"
    /\ configured' = [configured EXCEPT !["instrumentation"] = @ + 1]
    /\ obsPc' = "l345"
    /\ UNCHANGED <<obsInit, obsArg, obsCalls, obsLogger, otelServiceName,
                   serviceNames, obsReturns>>
    /\ UNCHANGED <<index, requestVars, sslVars, stopVars, statusVars, launchVars, daemonVars>>

\* lines 345-347: configure_profiling, which catches its own exceptions
ConfigureProfiling ==
    /\ obsPc = "l345"
    /\ configured' = [configured EXCEPT !["profiling"] = @ + 1]
    /\ obsPc' = "l349"
    /\ UNCHANGED <<obsInit, obsArg, obsCalls, obsLogger, otelServiceName,
                   serviceNames, obsReturns>>
    /\ UNCHANGED <<index, requestVars, sslVars, stopVars, statusVars, launchVars, daemonVars>>

\* lines 349-350: start_prometheus_server returns
StartPrometheusServer ==
    /\ obsPc = "l349"
    /\ configured' = [configured EXCEPT !["prometheus"] = @ + 1]
    /\ obsPc' = "l352"
    /\ UNCHANGED <<obsInit, obsArg, obsCalls, obsLogger, otelServiceName,
                   serviceNames, obsReturns>>
    /\ UNCHANGED <<index, requestVars, sslVars, stopVars, statusVars, launchVars, daemonVars>>

\* lines 364-366: tracing, metrics, instrumentation or the Prometheus server
\* raises; the exception is logged and re-raised, the flag stays False
InitObservabilityRaise ==
    /\ obsPc \in {"l340", "l341", "l342", "l349"}
    /\ obsPc' = "idle"
    /\ UNCHANGED <<obsInit, obsArg, obsCalls, obsLogger, otelServiceName, configured,
                   serviceNames, obsReturns>>
    /\ UNCHANGED <<index, requestVars, sslVars, stopVars, statusVars, launchVars, daemonVars>>

\* lines 352-362: the flag is set and the logger returned
InitObservabilityComplete ==
    /\ obsPc = "l352"
    /\ obsInit' = TRUE
    /\ obsReturns' = Append(obsReturns, obsLogger)
    /\ obsPc' = "idle"
    /\ UNCHANGED <<obsArg, obsCalls, obsLogger, otelServiceName, configured,
                   serviceNames>>
    /\ UNCHANGED <<index, requestVars, sslVars, stopVars, statusVars, launchVars, daemonVars>>

----------------------------------------------------------------------------
(* status_servicenow_system.py and the PID directory of the startup scripts *)

\* start_servicenow_http_system.main: PID_DIR.mkdir, the services are started
\* and their PID files written
StartHttpSystem ==
    /\ statusPc = "off"
    /\ pidDirs' = pidDirs \cup {ServicenowPids}
    /\ startedBy' = "http"
    /\ UNCHANGED <<statusPc, statusCli, statusEnv, statusPidDir, transport, healthPath>>
    /\ UNCHANGED <<index, obsInit, requestVars, sslVars, stopVars, obsVars, launchVars, daemonVars>>

\* start_servicenow_system.main: ensure_pid_dir, the SSE services are started
\* and their PID files written
StartSseSystem ==
    /\ statusPc = "off"
    /\ pidDirs' = pidDirs \cup {ServicenowPids}
    /\ startedBy' = "sse"
    /\ UNCHANGED <<statusPc, statusCli, statusEnv, statusPidDir, transport, healthPath>>
    /\ UNCHANGED <<index, obsInit, requestVars, sslVars, stopVars, obsVars, launchVars, daemonVars>>

\* stop_servicenow_system.main: the services are stopped, cleanup_pid_files
\* removes the PID files and the directory
StopServicenowSystem ==
    /\ statusPc = "off"
    /\ startedBy # "none"
    /\ pidDirs' = pidDirs \ {ServicenowPids}
    /\ startedBy' = "none"
    /\ UNCHANGED <<statusPc, statusCli, statusEnv, statusPidDir, transport, healthPath>>
    /\ UNCHANGED <<index, obsInit, requestVars, sslVars, stopVars, obsVars, launchVars, daemonVars>>

\* a directory .pids appears in or disappears from the working directory;
\* no script of the repository creates it
OtherPidDir ==
    /\ statusPc = "off"
    /\ pidDirs' = IF DotPids \in pidDirs THEN pidDirs \ {DotPids}
                                         ELSE pidDirs \cup {DotPids}
    /\ UNCHANGED <<startedBy, statusPc, statusCli, statusEnv, statusPidDir, transport,
                   healthPath>>
    /\ UNCHANGED <<index, obsInit, requestVars, sslVars, stopVars, obsVars, launchVars, daemonVars>>

\* python status_servicenow_system.py [--transport t]: line 33, PID_DIR
StatusImport(cli, env) ==
    /\ statusPc = "off"
    /\ statusCli' = cli
    /\ statusEnv' = env
    /\ statusPidDir' = FindPidDir(pidDirs)
    /\ statusPc' = "main"
    /\ UNCHANGED <<pidDirs, startedBy, transport, healthPath>>
    /\ UNCHANGED <<index, obsInit, requestVars, sslVars, stopVars, obsVars, launchVars, daemonVars>>

\* main, lines 136-137: the transport and the health path
StatusTransport ==
    /\ statusPc = "main"
    /\ transport' = DetermineTransport(statusCli, statusEnv, statusPidDir)
    /\ healthPath' = HealthPath(DetermineTransport(statusCli, statusEnv, statusPidDir))
    /\ statusPc' = "checking"
    /\ UNCHANGED <<pidDirs, startedBy, statusCli, statusEnv, statusPidDir>>
    /\ UNCHANGED <<index, obsInit, requestVars, sslVars, stopVars, obsVars, launchVars, daemonVars>>

\* main returns
StatusDone ==
    /\ statusPc = "checking"
    /\ statusPc' = "off"
    /\ statusCli' = NoName
    /\ statusEnv' = Unset
    /\ statusPidDir' = ServicenowPids
    /\ transport' = "none"
    /\ healthPath' = "none"
    /\ UNCHANGED <<pidDirs, startedBy>>
    /\ UNCHANGED <<index, obsInit, requestVars, sslVars, stopVars, obsVars, launchVars, daemonVars>>

----------------------------------------------------------------------------
(* start_servicenow_sse_system.py and start_servicenow_system.py *)

\* the service launchIdx is about
CurrentService == LaunchServices[launchIdx]

\* is_process_running(pid): os.kill(pid, 0) succeeds while the process table
\* holds the PID, for an exited process until it is reaped
IsProcessRunning(s) == svc[s].st \in {"running", "zombie"}

\* pkill -f for the names of the three services: SIGTERM to those that run
Pkill ==
    [s \in LaunchNames |->
        IF svc[s].st = "running"
        THEN [svc[s] EXCEPT !.sigs = Sent(@, "terminate")]
        ELSE svc[s]]

\* faulty variant: one server that started is enough
ServersStartedEither(ok) == ok["table"] \/ ok["knowledge"]

\* start_servicenow_system.main, line 231: table_success and knowledge_success
ServersStarted(ok) == ok["table"] /\ ok["knowledge"]

\* a service process ends by itself
SvcExits(s) ==
    /\ svc[s].st = "running"
    /\ svc' = [svc EXCEPT ![s].st = "zombie"]
    /\ UNCHANGED <<script, launchPc, launchIdx, launched, observed, success,
                   sseProcesses, cleanupCursor, cleanupWaiting, inHandler,
                   interruptedIn, launchRc, pidFiles>>
    /\ UNCHANGED <<index, obsInit, requestVars, sslVars, stopVars, obsVars, statusVars,
                   daemonVars>>

\* an ended service process is reaped: its Popen object is dropped or polled
\* by a later Popen call
SvcReaped(s) ==
    /\ svc[s].st = "zombie"
    /\ svc' = [svc EXCEPT ![s].st = "gone"]
    /\ UNCHANGED <<script, launchPc, launchIdx, launched, observed, success,
                   sseProcesses, cleanupCursor, cleanupWaiting, inHandler,
                   interruptedIn, launchRc, pidFiles>>
    /\ UNCHANGED <<index, obsInit, requestVars, sslVars, stopVars, obsVars, statusVars,
                   daemonVars>>

\* python start_servicenow_sse_system.py: main installs signal_handler
RunSseSystem ==
    /\ script = "none"
    /\ script' = "sse"
    /\ launchPc' = "files"
    /\ UNCHANGED <<launchIdx, svc, launched, observed, success, sseProcesses,
                   cleanupCursor, cleanupWaiting, inHandler, interruptedIn, launchRc,
                   pidFiles>>
    /\ UNCHANGED <<index, obsInit, requestVars, sslVars, stopVars, obsVars, statusVars,
                   daemonVars>>

\* main, lines 53-55: a required file is missing
SseMissingFiles ==
    /\ script = "sse"
    /\ launchPc = "files"
    /\ launchRc' = "1"
    /\ launchPc' = "exited"
    /\ UNCHANGED <<script, launchIdx, svc, launched, observed, success, sseProcesses,
                   cleanupCursor, cleanupWaiting, inHandler, interruptedIn, pidFiles>>
    /\ UNCHANGED <<index, obsInit, requestVars, sslVars, stopVars, obsVars, statusVars,
                   daemonVars>>

\* main, lines 60-63: pkill for processes of an earlier run
SsePkill ==
    /\ script = "sse"
    /\ launchPc = "files"
    /\ svc' = Pkill
    /\ launchPc' = "spawn"
    /\ launchIdx' = 1
    /\ UNCHANGED <<script, launched, observed, success, sseProcesses, cleanupCursor,
                   cleanupWaiting, inHandler, interruptedIn, launchRc, pidFiles>>
    /\ UNCHANGED <<index, obsInit, requestVars, sslVars, stopVars, obsVars, statusVars,
                   daemonVars>>

\* main, lines 70-72, 79-81, 105-110: subprocess.Popen returns
SseSpawn ==
    /\ script = "sse"
    /\ launchPc = "spawn"
    /\ svc' = [svc EXCEPT ![CurrentService] = [st |-> "running", sigs |-> <<>>]]
    /\ launched' = launched \cup {CurrentService}
    /\ launchPc' = "append"
    /\ UNCHANGED <<script, launchIdx, observed, success, sseProcesses, cleanupCursor,
                   cleanupWaiting, inHandler, interruptedIn, launchRc, pidFiles>>
    /\ UNCHANGED <<index, obsInit, requestVars, sslVars, stopVars, obsVars, statusVars,
                   daemonVars>>

\* subprocess.Popen raises; except Exception: return 1, by way of finally
SseSpawnRaises ==
    /\ script = "sse"
    /\ launchPc = "spawn"
    /\ launchRc' = "1"
    /\ launchPc' = "cleanup"
    /\ cleanupCursor' = 1
    /\ cleanupWaiting' = FALSE
    /\ UNCHANGED <<script, launchIdx, svc, launched, observed, success, sseProcesses,
                   inHandler, interruptedIn, pidFiles>>
    /\ UNCHANGED <<index, obsInit, requestVars, sslVars, stopVars, obsVars, statusVars,
                   daemonVars>>

\* main, lines 73, 82, 111: processes.append(proc)
SseAppend ==
    /\ script = "sse"
    /\ launchPc = "append"
    /\ sseProcesses' = Append(sseProcesses, CurrentService)
    /\ launchPc' = CASE launchIdx = 1 -> "spawn"
                      [] launchIdx = 2 -> "check"
                      [] OTHER -> "wait_ui"
    /\ launchIdx' = CASE launchIdx = 1 -> 2
                       [] launchIdx = 2 -> 1
                       [] OTHER -> launchIdx
    /\ UNCHANGED <<script, svc, launched, observed, success, cleanupCursor,
                   cleanupWaiting, inHandler, interruptedIn, launchRc, pidFiles>>
    /\ UNCHANGED <<index, obsInit, requestVars, sslVars, stopVars, obsVars, statusVars,
                   daemonVars>>

\* main, lines 89, 95: proc.poll() is None
SseCheckAlive ==
    /\ script = "sse"
    /\ launchPc = "check"
    /\ svc[CurrentService].st = "running"
    /\ observed' = [observed EXCEPT ![CurrentService] = "alive"]
    /\ launchPc' = IF launchIdx = 1 THEN "check" ELSE "spawn"
    /\ launchIdx' = launchIdx + 1
    /\ UNCHANGED <<script, svc, launched, success, sseProcesses, cleanupCursor,
                   cleanupWaiting, inHandler, interruptedIn, launchRc, pidFiles>>
    /\ UNCHANGED <<index, obsInit, requestVars, sslVars, stopVars, obsVars, statusVars,
                   daemonVars>>

\* main, lines 89-93, 95-99: proc.poll() is not None: return 1, by way of
\* finally
SseCheckExited ==
    /\ script = "sse"
    /\ launchPc = "check"
    /\ svc[CurrentService].st \in {"zombie", "gone"}
    /\ svc' = [svc EXCEPT ![CurrentService].st = "gone"]
    /\ observed' = [observed EXCEPT ![CurrentService] = "exited"]
    /\ launchRc' = "1"
    /\ launchPc' = "cleanup"
    /\ cleanupCursor' = 1
    /\ cleanupWaiting' = FALSE
    /\ UNCHANGED <<script, launchIdx, launched, success, sseProcesses, inHandler,
                   interruptedIn, pidFiles>>
    /\ UNCHANGED <<index, obsInit, requestVars, sslVars, stopVars, obsVars, statusVars,
                   daemonVars>>

\* main, line 121: magentic_proc.wait() returns; finally; return 0
SseWaitUi ==
    /\ script = "sse"
    /\ launchPc = "wait_ui"
    /\ svc["ui"].st \in {"zombie", "gone"}
    /\ svc' = [svc EXCEPT !["ui"].st = "gone"]
    /\ launchRc' = "0"
    /\ launchPc' = "cleanup"
    /\ cleanupCursor' = 1
    /\ cleanupWaiting' = FALSE
    /\ UNCHANGED <<script, launchIdx, launched, observed, success, sseProcesses,
                   inHandler, interruptedIn, pidFiles>>
    /\ UNCHANGED <<index, obsInit, requestVars, sslVars, stopVars, obsVars, statusVars,
                   daemonVars>>

\* SIGINT while main runs: signal_handler starts cleanup_processes
Sigint ==
    /\ script = "sse"
    /\ launchPc \notin {"idle", "exited"}
    /\ inHandler' = TRUE
    /\ interruptedIn' = IF inHandler THEN interruptedIn
                        ELSE IF launchPc = "files" THEN "outside"
                        ELSE IF launchPc = "cleanup" THEN "finally"
                        ELSE "try"
    /\ launchPc' = "cleanup"
    /\ cleanupCursor' = 1
    /\ cleanupWaiting' = FALSE
    /\ UNCHANGED <<script, launchIdx, svc, launched, observed, success, sseProcesses,
                   launchRc, pidFiles>>
    /\ UNCHANGED <<index, obsInit, requestVars, sslVars, stopVars, obsVars, statusVars,
                   daemonVars>>

\* cleanup_processes, line 22: proc.terminate() for a process that runs
CleanupTerminate ==
    /\ launchPc = "cleanup"
    /\ cleanupCursor <= Len(sseProcesses)
    /\ ~ cleanupWaiting
    /\ svc[sseProcesses[cleanupCursor]].st = "running"
    /\ svc' = [svc EXCEPT ![sseProcesses[cleanupCursor]].sigs = Sent(@, "terminate")]
    /\ cleanupWaiting' = TRUE
    /\ UNCHANGED <<script, launchPc, launchIdx, launched, observed, success,
                   sseProcesses, cleanupCursor, inHandler, interruptedIn, launchRc,
                   pidFiles>>
    /\ UNCHANGED <<index, obsInit, requestVars, sslVars, stopVars, obsVars, statusVars,
                   daemonVars>>

\* cleanup_processes, lines 22-23: the process has ended; terminate() polls it
\* and sends nothing, wait returns
CleanupEnded ==
    /\ launchPc = "cleanup"
    /\ cleanupCursor <= Len(sseProcesses)
    /\ ~ cleanupWaiting
    /\ svc[sseProcesses[cleanupCursor]].st # "running"
    /\ svc' = [svc EXCEPT ![sseProcesses[cleanupCursor]].st = "gone"]
    /\ cleanupCursor' = cleanupCursor + 1
    /\ UNCHANGED <<script, launchPc, launchIdx, launched, observed, success,
                   sseProcesses, cleanupWaiting, inHandler, interruptedIn, launchRc,
                   pidFiles>>
    /\ UNCHANGED <<index, obsInit, requestVars, sslVars, stopVars, obsVars, statusVars,
                   daemonVars>>

\* cleanup_processes, line 23: proc.wait(timeout=5) returns
CleanupWait ==
    /\ launchPc = "cleanup"
    /\ cleanupCursor <= Len(sseProcesses)
    /\ cleanupWaiting
    /\ svc[sseProcesses[cleanupCursor]].st # "running"
    /\ svc' = [svc EXCEPT ![sseProcesses[cleanupCursor]].st = "gone"]
    /\ cleanupCursor' = cleanupCursor + 1
    /\ cleanupWaiting' = FALSE
    /\ UNCHANGED <<script, launchPc, launchIdx, launched, observed, success,
                   sseProcesses, inHandler, interruptedIn, launchRc, pidFiles>>
    /\ UNCHANGED <<index, obsInit, requestVars, sslVars, stopVars, obsVars, statusVars,
                   daemonVars>>

\* cleanup_processes, lines 24-26: TimeoutExpired, proc.kill()
CleanupKill ==
    /\ launchPc = "cleanup"
    /\ cleanupCursor <= Len(sseProcesses)
    /\ cleanupWaiting
    /\ svc[sseProcesses[cleanupCursor]].st = "running"
    /\ svc' = [svc EXCEPT ![sseProcesses[cleanupCursor]] =
                   [st |-> "zombie", sigs |-> @.sigs \o <<"timeout", "kill">>]]
    /\ cleanupCursor' = cleanupCursor + 1
    /\ cleanupWaiting' = FALSE
    /\ UNCHANGED <<script, launchPc, launchIdx, launched, observed, success,
                   sseProcesses, inHandler, interruptedIn, launchRc, pidFiles>>
    /\ UNCHANGED <<index, obsInit, requestVars, sslVars, stopVars, obsVars, statusVars,
                   daemonVars>>

\* cleanup_processes, line 29: processes.clear(); then signal_handler's
\* sys.exit(0), which passes the finally clause when it interrupted the try
\* block, or main's return
CleanupClear ==
    /\ launchPc = "cleanup"
    /\ cleanupCursor > Len(sseProcesses)
    /\ sseProcesses' = <<>>
    /\ cleanupCursor' = 1
    /\ inHandler' = FALSE
    /\ launchRc' = IF inHandler THEN "sigint" ELSE launchRc
    /\ launchPc' = IF inHandler /\ interruptedIn = "try" THEN "cleanup" ELSE "exited"
    /\ interruptedIn' = IF inHandler /\ interruptedIn = "try" THEN "finally"
                        ELSE interruptedIn
    /\ UNCHANGED <<script, launchIdx, svc, launched, observed, success, cleanupWaiting,
                   pidFiles>>
    /\ UNCHANGED <<index, obsInit, requestVars, sslVars, stopVars, obsVars, statusVars,
                   daemonVars>>

\* python start_servicenow_system.py: main, ensure_pid_dir
RunDaemonSystem ==
    /\ script = "none"
    /\ script' = "daemon"
    /\ launchPc' = "files"
    /\ UNCHANGED <<launchIdx, svc, launched, observed, success, sseProcesses,
                   cleanupCursor, cleanupWaiting, inHandler, interruptedIn, launchRc,
                   pidFiles>>
    /\ UNCHANGED <<index, obsInit, requestVars, sslVars, stopVars, obsVars, statusVars,
                   daemonVars>>

\* main, lines 212-213: check_prerequisites fails
DaemonMissingFiles ==
    /\ script = "daemon"
    /\ launchPc = "files"
    /\ launchRc' = "1"
    /\ launchPc' = "exited"
    /\ UNCHANGED <<script, launchIdx, svc, launched, observed, success, sseProcesses,
                   cleanupCursor, cleanupWaiting, inHandler, interruptedIn, pidFiles>>
    /\ UNCHANGED <<index, obsInit, requestVars, sslVars, stopVars, obsVars, statusVars,
                   daemonVars>>

\* main, line 216: stop_existing_services is entered
DaemonStopExisting ==
    /\ script = "daemon"
    /\ launchPc = "files"
    /\ launchPc' = "stop_existing"
    /\ launchIdx' = 1
    /\ UNCHANGED <<script, svc, launched, observed, success, sseProcesses,
                   cleanupCursor, cleanupWaiting, inHandler, interruptedIn, launchRc,
                   pidFiles>>
    /\ UNCHANGED <<index, obsInit, requestVars, sslVars, stopVars, obsVars, statusVars,
                   daemonVars>>

\* stop_existing_services, lines 67-76: no PID file, or kill_process finds no
\* process of that PID
KillProcessAbsent ==
    /\ script = "daemon"
    /\ launchPc = "stop_existing"
    /\ CurrentService \notin pidFiles \/ ~ IsProcessRunning(CurrentService)
    /\ launchPc' = IF launchIdx = Len(LaunchServices) THEN "pkill" ELSE "stop_existing"
    /\ launchIdx' = IF launchIdx = Len(LaunchServices) THEN 1 ELSE launchIdx + 1
    /\ UNCHANGED <<script, svc, launched, observed, success, sseProcesses,
                   cleanupCursor, cleanupWaiting, inHandler, interruptedIn, launchRc,
                   pidFiles>>
    /\ UNCHANGED <<index, obsInit, requestVars, sslVars, stopVars, obsVars, statusVars,
                   daemonVars>>

\* kill_process, lines 53-54: SIGTERM, time.sleep(2)
KillProcessTerm ==
    /\ script = "daemon"
    /\ launchPc = "stop_existing"
    /\ CurrentService \in pidFiles
    /\ IsProcessRunning(CurrentService)
    /\ svc' = [svc EXCEPT ![CurrentService].sigs = Sent(@, "terminate")]
    /\ launchPc' = "kill_sleep"
    /\ UNCHANGED <<script, launchIdx, launched, observed, success, sseProcesses,
                   cleanupCursor, cleanupWaiting, inHandler, interruptedIn, launchRc,
                   pidFiles>>
    /\ UNCHANGED <<index, obsInit, requestVars, sslVars, stopVars, obsVars, statusVars,
                   daemonVars>>

\* kill_process, lines 55-57: SIGKILL if the process is still running
KillProcessCheck ==
    /\ script = "daemon"
    /\ launchPc = "kill_sleep"
    /\ svc' = IF IsProcessRunning(CurrentService)
              THEN [svc EXCEPT ![CurrentService] =
                       [st |-> "zombie", sigs |-> Append(@.sigs, "kill")]]
              ELSE svc
    /\ launchPc' = IF launchIdx = Len(LaunchServices) THEN "pkill" ELSE "stop_existing"
    /\ launchIdx' = IF launchIdx = Len(LaunchServices) THEN 1 ELSE launchIdx + 1
    /\ UNCHANGED <<script, launched, observed, success, sseProcesses, cleanupCursor,
                   cleanupWaiting, inHandler, interruptedIn, launchRc, pidFiles>>
    /\ UNCHANGED <<index, obsInit, requestVars, sslVars, stopVars, obsVars, statusVars,
                   daemonVars>>

\* stop_existing_services, lines 78-87: pkill by name, the PID files are
\* unlinked; main goes on to start the servers, or returns 1
StopExistingPkill ==
    /\ script = "daemon"
    /\ launchPc = "pkill"
    /\ svc' = Pkill
    /\ pidFiles' = {}
    /\ launchPc' = IF launchRc = "none" THEN "spawn" ELSE "exited"
    /\ UNCHANGED <<script, launchIdx, launched, observed, success, sseProcesses,
                   cleanupCursor, cleanupWaiting, inHandler, interruptedIn, launchRc>>
    /\ UNCHANGED <<index, obsInit, requestVars, sslVars, stopVars, obsVars, statusVars,
                   daemonVars>>

\* where main goes after start_mcp_server or start_magentic_ui returned, lines
\* 219-242
AfterStart(ok) ==
    CASE launchIdx = 1 -> [pc |-> "spawn", idx |-> 2, rc |-> launchRc]
      [] launchIdx = 2 ->
            IF ServersStarted(ok)
            THEN [pc |-> "spawn", idx |-> 3, rc |-> launchRc]
            ELSE [pc |-> "stop_existing", idx |-> 1, rc |-> "1"]
      [] OTHER ->
            IF ok["ui"]
            THEN [pc |-> "status", idx |-> 1, rc |-> launchRc]
            ELSE [pc |-> "stop_existing", idx |-> 1, rc |-> "1"]

\* start_mcp_server, lines 118-128, start_magentic_ui, lines 151-164:
\* subprocess.Popen returns, write_pid_file
DaemonStart ==
    /\ script = "daemon"
    /\ launchPc = "spawn"
    /\ svc' = [svc EXCEPT ![CurrentService] = [st |-> "running", sigs |-> <<>>]]
    /\ launched' = launched \cup {CurrentService}
    /\ pidFiles' = pidFiles \cup {CurrentService}
    /\ launchPc' = "check"
    /\ UNCHANGED <<script, launchIdx, observed, success, sseProcesses, cleanupCursor,
                   cleanupWaiting, inHandler, interruptedIn, launchRc>>
    /\ UNCHANGED <<index, obsInit, requestVars, sslVars, stopVars, obsVars, statusVars,
                   daemonVars>>

\* start_mcp_server, lines 141-143, start_magentic_ui, lines 177-179:
\* subprocess.Popen raises, the function returns False
DaemonStartRaises ==
    /\ script = "daemon"
    /\ launchPc = "spawn"
    /\ success' = [success EXCEPT ![CurrentService] = FALSE]
    /\ launchPc' = AfterStart(success').pc
    /\ launchIdx' = AfterStart(success').idx
    /\ launchRc' = AfterStart(success').rc
    /\ UNCHANGED <<script, svc, launched, observed, sseProcesses, cleanupCursor,
                   cleanupWaiting, inHandler, interruptedIn, pidFiles>>
    /\ UNCHANGED <<index, obsInit, requestVars, sslVars, stopVars, obsVars, statusVars,
                   daemonVars>>

\* start_mcp_server, lines 131-139, start_magentic_ui, lines 167-175: the
\* sleep, is_process_running(process.pid), the function returns its result
DaemonCheck ==
    /\ script = "daemon"
    /\ launchPc = "check"
    /\ observed' = [observed EXCEPT ![CurrentService] =
                        IF IsProcessRunning(CurrentService) THEN "alive" ELSE "exited"]
    /\ success' = [success EXCEPT ![CurrentService] = IsProcessRunning(CurrentService)]
    /\ launchPc' = AfterStart(success').pc
    /\ launchIdx' = AfterStart(success').idx
    /\ launchRc' = AfterStart(success').rc
    /\ UNCHANGED <<script, svc, launched, sseProcesses, cleanupCursor, cleanupWaiting,
                   inHandler, interruptedIn, pidFiles>>
    /\ UNCHANGED <<index, obsInit, requestVars, sslVars, stopVars, obsVars, statusVars,
                   daemonVars>>

\* check_services_status: every PID file names a running process
AllRunning == \A s \in LaunchNames : s \in pidFiles /\ IsProcessRunning(s)

\* main, lines 245-256: the final status check, return 0 or return 1
DaemonStatus ==
    /\ script = "daemon"
    /\ launchPc = "status"
    /\ launchRc' = IF AllRunning THEN "0" ELSE "1"
    /\ launchPc' = "exited"
    /\ UNCHANGED <<script, launchIdx, svc, launched, observed, success, sseProcesses,
                   cleanupCursor, cleanupWaiting, inHandler, interruptedIn, pidFiles>>
    /\ UNCHANGED <<index, obsInit, requestVars, sslVars, stopVars, obsVars, statusVars,
                   daemonVars>>

\* the script's process has ended; the next run starts from a fresh module
LaunchExit ==
    /\ launchPc = "exited"
    /\ script' = "none"
    /\ launchPc' = "idle"
    /\ launchIdx' = 1
    /\ launched' = {}
    /\ observed' = [s \in LaunchNames |-> "unchecked"]
    /\ success' = [s \in LaunchNames |-> FALSE]
    /\ interruptedIn' = "none"
    /\ launchRc' = "none"
    /\ UNCHANGED <<svc, sseProcesses, cleanupCursor, cleanupWaiting, inHandler, pidFiles>>
    /\ UNCHANGED <<index, obsInit, requestVars, sslVars, stopVars, obsVars, statusVars,
                   daemonVars>>

----------------------------------------------------------------------------
(* stop_servicenow_system.py *)

\* the service main's loop is at
DaemonService == LaunchServices[daemonIdx]

\* read_pid_file(pid_file) for the service main's loop is at
DaemonPid == pidFileOf[DaemonService]

\* is_process_running(pid): os.kill(pid, 0) succeeds, whoever runs under pid
PidRunning(pid) == pid # NoPid /\ procs[pid].st = "running"

\* os.kill(pid, sig): the signal reaches whatever process has the PID
OsKill(pid, sig) ==
    IF PidRunning(pid)
    THEN [procs EXCEPT ![pid].sigs = Sent(@, sig)]
    ELSE procs

\* faulty variant: the loop is skipped
LoopEndsAtOnce(n) == TRUE

\* kill_process_gracefully, line 54: for i in range(timeout) is exhausted
LoopEnds(n) == n = Timeout

\* main's loop goes to the next service, or leaves the loop
NextServicePc == IF daemonIdx = Len(LaunchServices) THEN "by_name" ELSE "entry"

NextServiceIdx == IF daemonIdx = Len(LaunchServices) THEN 1 ELSE daemonIdx + 1

\* a startup script starts a service and writes its PID file
ServiceLaunched(s, p) ==
    /\ daemonPc = "idle"
    /\ procs[p].st = "free"
    /\ \A q \in Pids : ~ (procs[q].st = "running" /\ procs[q].owner = s)
    /\ procs' = [procs EXCEPT ![p] = [st |-> "running", owner |-> s, sigs |-> <<>>]]
    /\ pidFileOf' = [pidFileOf EXCEPT ![s] = p]
    /\ UNCHANGED <<daemonPc, daemonIdx, polls, entryPids, entryState, trace, daemonRc>>
    /\ UNCHANGED <<index, obsInit, requestVars, sslVars, stopVars, obsVars, statusVars,
                   launchVars>>

\* a process ends: by itself, or because of a signal it was sent
ProcDies(p) ==
    /\ procs[p].st = "running"
    /\ procs' = [procs EXCEPT ![p] = [st |-> "free", owner |-> "none", sigs |-> <<>>]]
    /\ UNCHANGED <<pidFileOf, daemonPc, daemonIdx, polls, entryPids, entryState, trace,
                   daemonRc>>
    /\ UNCHANGED <<index, obsInit, requestVars, sslVars, stopVars, obsVars, statusVars,
                   launchVars>>

\* the system gives a free PID that a PID file still names to a process that
\* no startup script launched
PidReused(p) ==
    /\ procs[p].st = "free"
    /\ \E s \in LaunchNames : pidFileOf[s] = p
    /\ procs' = [procs EXCEPT ![p] = [st |-> "running", owner |-> "other", sigs |-> <<>>]]
    /\ UNCHANGED <<pidFileOf, daemonPc, daemonIdx, polls, entryPids, entryState, trace,
                   daemonRc>>
    /\ UNCHANGED <<index, obsInit, requestVars, sslVars, stopVars, obsVars, statusVars,
                   launchVars>>

\* python stop_servicenow_system.py: main begins
RunStopSystem ==
    /\ daemonPc = "idle"
    /\ daemonPc' = "entry"
    /\ daemonIdx' = 1
    /\ polls' = 0
    /\ entryPids' = {pidFileOf[s] : s \in LaunchNames} \ {NoPid}
    /\ UNCHANGED <<procs, pidFileOf, entryState, trace, daemonRc>>
    /\ UNCHANGED <<index, obsInit, requestVars, sslVars, stopVars, obsVars, statusVars,
                   launchVars>>

\* kill_process_gracefully, lines 39-41: if not pid: return
GracefulAbsent ==
    /\ daemonPc = "entry"
    /\ DaemonPid = NoPid
    /\ entryState' = "absent"
    /\ trace' = <<>>
    /\ daemonPc' = NextServicePc
    /\ daemonIdx' = NextServiceIdx
    /\ UNCHANGED <<procs, pidFileOf, polls, entryPids, daemonRc>>
    /\ UNCHANGED <<index, obsInit, requestVars, sslVars, stopVars, obsVars, statusVars,
                   launchVars>>

\* kill_process_gracefully, lines 43-45: if not is_process_running(pid): return
GracefulNotRunning ==
    /\ daemonPc = "entry"
    /\ DaemonPid # NoPid
    /\ ~ PidRunning(DaemonPid)
    /\ entryState' = "not_running"
    /\ trace' = <<>>
    /\ daemonPc' = NextServicePc
    /\ daemonIdx' = NextServiceIdx
    /\ UNCHANGED <<procs, pidFileOf, polls, entryPids, daemonRc>>
    /\ UNCHANGED <<index, obsInit, requestVars, sslVars, stopVars, obsVars, statusVars,
                   launchVars>>

\* kill_process_gracefully, lines 47-51: os.kill(pid, signal.SIGTERM)
GracefulTerm ==
    /\ daemonPc = "entry"
    /\ PidRunning(DaemonPid)
    /\ entryState' = "running"
    /\ procs' = OsKill(DaemonPid, "SIGTERM")
    /\ trace' = <<"SIGTERM">>
    /\ polls' = 0
    /\ daemonPc' = "polling"
    /\ UNCHANGED <<pidFileOf, daemonIdx, entryPids, daemonRc>>
    /\ UNCHANGED <<index, obsInit, requestVars, sslVars, stopVars, obsVars, statusVars,
                   launchVars>>

\* kill_process_gracefully, lines 54-58: a poll finds the process running,
\* time.sleep(1)
PollAlive ==
    /\ daemonPc = "polling"
    /\ ~ LoopEnds(polls)
    /\ PidRunning(DaemonPid)
    /\ trace' = Append(trace, "alive")
    /\ polls' = polls + 1
    /\ UNCHANGED <<procs, pidFileOf, daemonPc, daemonIdx, entryPids, entryState,
                   daemonRc>>
    /\ UNCHANGED <<index, obsInit, requestVars, sslVars, stopVars, obsVars, statusVars,
                   launchVars>>

\* kill_process_gracefully, lines 55-57: a poll finds no process, return
PollStopped ==
    /\ daemonPc = "polling"
    /\ ~ LoopEnds(polls)
    /\ ~ PidRunning(DaemonPid)
    /\ polls' = 0
    /\ daemonPc' = NextServicePc
    /\ daemonIdx' = NextServiceIdx
    /\ UNCHANGED <<procs, pidFileOf, entryPids, entryState, trace, daemonRc>>
    /\ UNCHANGED <<index, obsInit, requestVars, sslVars, stopVars, obsVars, statusVars,
                   launchVars>>

\* kill_process_gracefully, lines 60-71: os.kill(pid, signal.SIGKILL), the
\* sleep and the report
ForceKill ==
    /\ daemonPc = "polling"
    /\ LoopEnds(polls)
    /\ procs' = OsKill(DaemonPid, "SIGKILL")
    /\ trace' = Append(trace, "SIGKILL")
    /\ polls' = 0
    /\ daemonPc' = NextServicePc
    /\ daemonIdx' = NextServiceIdx
    /\ UNCHANGED <<pidFileOf, entryPids, entryState, daemonRc>>
    /\ UNCHANGED <<index, obsInit, requestVars, sslVars, stopVars, obsVars, statusVars,
                   launchVars>>

\* kill_by_process_name: pkill by the services' names, kill -TERM by their
\* ports
KillByProcessName ==
    /\ daemonPc = "by_name"
    /\ procs' = [p \in Pids |->
                    IF procs[p].st = "running" /\ procs[p].owner \in LaunchNames
                    THEN [procs[p] EXCEPT !.sigs = Sent(@, "pkill")]
                    ELSE procs[p]]
    /\ daemonPc' = "cleanup"
    /\ UNCHANGED <<pidFileOf, daemonIdx, polls, entryPids, entryState, trace, daemonRc>>
    /\ UNCHANGED <<index, obsInit, requestVars, sslVars, stopVars, obsVars, statusVars,
                   launchVars>>

\* cleanup_pid_files: each PID file is unlinked, unless unlink raises
CleanupPidFiles(failed) ==
    /\ daemonPc = "cleanup"
    /\ pidFileOf' = [s \in LaunchNames |-> IF s \in failed THEN pidFileOf[s] ELSE NoPid]
    /\ daemonPc' = "final"
    /\ UNCHANGED <<procs, daemonIdx, polls, entryPids, entryState, trace, daemonRc>>
    /\ UNCHANGED <<index, obsInit, requestVars, sslVars, stopVars, obsVars, statusVars,
                   launchVars>>

\* check_final_status: no PID file names a running process
AllStopped == \A s \in LaunchNames : ~ PidRunning(pidFileOf[s])

\* main, lines 176-183: return 0 if check_final_status() else 1
CheckFinalStatus ==
    /\ daemonPc = "final"
    /\ daemonRc' = IF AllStopped THEN "0" ELSE "1"
    /\ daemonPc' = "exited"
    /\ UNCHANGED <<procs, pidFileOf, daemonIdx, polls, entryPids, entryState, trace>>
    /\ UNCHANGED <<index, obsInit, requestVars, sslVars, stopVars, obsVars, statusVars,
                   launchVars>>

\* the script's process has ended
StopSystemExit ==
    /\ daemonPc = "exited"
    /\ daemonPc' = "idle"
    /\ entryPids' = {}
    /\ entryState' = "unread"
    /\ trace' = <<>>
    /\ daemonRc' = "none"
    /\ procs' = [p \in Pids |-> [procs[p] EXCEPT !.sigs = <<>>]]
    /\ UNCHANGED <<pidFileOf, daemonIdx, polls>>
    /\ UNCHANGED <<index, obsInit, requestVars, sslVars, stopVars, obsVars, statusVars,
                   launchVars>>

----------------------------------------------------------------------------
(* Specification *)

Next ==
    \E r \in Reqs :
        \/ Call(r)
        \/ RequestInitObservability(r)
        \/ RequestInitObservabilityRaise(r)
        \/ BuildQuery(r)
        \/ ValidatorSetup(r)
        \/ ValidatorSetupRaise(r)
        \/ SimilaritySearchDone(r)
        \/ EmbeddingRaise(r)
        \/ IndexQueryRaise(r)
        \/ OracleAnswer(r)
        \/ OracleRefusal(r)
        \/ OracleRaise(r)
        \/ OracleMalformed(r)
        \/ ValidatorReturn(r)
        \/ ValidatorAttributeError(r)
        \/ GateDenied(r)
        \/ Forward(r)
        \/ TransportRespond(r)
        \/ TransportRaise(r)
        \/ Finish(r)

Spec == Init /\ [][Next]_vars

\* the gate and the guarded client in front of a deterministic oracle
NextDet ==
    \E r \in Reqs :
        \/ Call(r)
        \/ RequestInitObservability(r)
        \/ RequestInitObservabilityRaise(r)
        \/ BuildQuery(r)
        \/ ValidatorSetup(r)
        \/ ValidatorSetupRaise(r)
        \/ SimilaritySearchDone(r)
        \/ EmbeddingRaise(r)
        \/ IndexQueryRaise(r)
        \/ DetOracleAnswer(r)
        \/ ValidatorReturn(r)
        \/ GateDenied(r)
        \/ Forward(r)
        \/ TransportRespond(r)
        \/ TransportRaise(r)
        \/ Finish(r)

SpecDet == Init /\ [][NextDet]_vars

\* the MCP server scripts
NextSSL ==
    \/ \E s \in Servers : \E v \in EnvValues : StartServer(s, v)
    \/ ReadVerifySsl
    \/ BuildClient
    \/ BuildClientVerifyFalse
    \/ StopServer

SpecSSL == InitOps /\ [][NextSSL]_vars

\* start_system.py and the children it launches
NextStop ==
    \/ InvokeStart
    \/ StartComponent
    \/ StartSystemDone
    \/ Interrupt
    \/ UnexpectedException
    \/ InvokeStop
    \/ \E p \in Components : ChildExits(p)
    \/ \E m \in Modes :
           \/ Signal(m)
           \/ StopTerminate(m)
           \/ StopWait(m)
           \/ StopKill(m)
           \/ StopAlready(m)
           \/ StopDone(m)
           \/ Reap(m)

SpecStop == InitOps /\ [][NextStop]_vars

\* a process that calls init_observability
NextObs ==
    \/ \E n \in ServiceNameArgs : InitObservabilityCall(n)
    \/ InitObservabilityCached
    \/ ConfigureLogging
    \/ ConfigureTracing
    \/ ConfigureMetrics
    \/ ConfigureAutoInstrumentation
    \/ ConfigureProfiling
    \/ StartPrometheusServer
    \/ InitObservabilityRaise
    \/ InitObservabilityComplete

SpecObs == InitOps /\ [][NextObs]_vars

\* the status checker after the startup and shutdown scripts
NextStatus ==
    \/ StartHttpSystem
    \/ StartSseSystem
    \/ StopServicenowSystem
    \/ OtherPidDir
    \/ \E cli \in {NoName, "http", "sse"} : \E env \in TransportEnvValues :
           StatusImport(cli, env)
    \/ StatusTransport
    \/ StatusDone

SpecStatus == InitOps /\ [][NextStatus]_vars

\* the two startup scripts that launch the servers and then Magentic-UI
NextLaunch ==
    \/ \E s \in LaunchNames : SvcExits(s) \/ SvcReaped(s)
    \/ RunSseSystem
    \/ SseMissingFiles
    \/ SsePkill
    \/ SseSpawn
    \/ SseSpawnRaises
    \/ SseAppend
    \/ SseCheckAlive
    \/ SseCheckExited
    \/ SseWaitUi
    \/ Sigint
    \/ CleanupTerminate
    \/ CleanupEnded
    \/ CleanupWait
    \/ CleanupKill
    \/ CleanupClear
    \/ RunDaemonSystem
    \/ DaemonMissingFiles
    \/ DaemonStopExisting
    \/ KillProcessAbsent
    \/ KillProcessTerm
    \/ KillProcessCheck
    \/ StopExistingPkill
    \/ DaemonStart
    \/ DaemonStartRaises
    \/ DaemonCheck
    \/ DaemonStatus
    \/ LaunchExit

SpecLaunch == InitOps /\ [][NextLaunch]_vars

\* the shutdown script over the PID files the startup scripts left
NextDaemon ==
    \/ \E s \in LaunchNames : \E p \in Pids : ServiceLaunched(s, p)
    \/ \E p \in Pids : ProcDies(p) \/ PidReused(p)
    \/ RunStopSystem
    \/ GracefulAbsent
    \/ GracefulNotRunning
    \/ GracefulTerm
    \/ PollAlive
    \/ PollStopped
    \/ ForceKill
    \/ KillByProcessName
    \/ \E failed \in SUBSET LaunchNames : CleanupPidFiles(failed)
    \/ CheckFinalStatus
    \/ StopSystemExit

SpecDaemon == InitOps /\ [][NextDaemon]_vars


----------------------------------------------------------------------------
(* Vocabulary of the properties *)

HasEvent(r, e) == \E i \in 1..Len(events[r]) : events[r][i] = e

\* e occurs in the events of r, and before every occurrence of f
Precedes(r, e, f) ==
    \E i \in 1..Len(events[r]) :
        /\ events[r][i] = e
        /\ \A j \in 1..Len(events[r]) : events[r][j] = f => i < j

\* request() has ended for r
Ended(r) == pc[r] = "done"

\* query_validator was entered for r and control has left it
GateLeft(r) ==
    /\ query[r] # NoQuery
    /\ pc[r] \in {"l134", "awaiting", "done"}

\* the oracle was called for r and gave no parsed Approval
OracleFailed(r) ==
    /\ HasEvent(r, OracleCallEvent)
    /\ parsed[r] = None

\* the index answered the query of r with zero chunks
EmptyContext(r) ==
    /\ HasEvent(r, Log("Similarity search done"))
    /\ docs[r] = <<>>

\* the call of r carries a request body
HasBody(c) == c.json \notin {JsonNone, JsonEmpty} \/ c.other # OtherNone

----------------------------------------------------------------------------
(* Properties *)

\* C1: whenever the gate's decision for a call is approved=false, request()
\* raises and the underlying transport is invoked zero times for that call.
C1_DeniedNeverSent ==
    \A r \in Reqs :
        (parsed[r] # None /\ ~ parsed[r].approval) =>
            /\ sent[r] = <<>>
            /\ pc[r] # "awaiting"
            /\ Ended(r) => outcome[r].kind = "raised"

C1_Witness ==
    \E r \in Reqs :
        /\ Ended(r)
        /\ gateReturn[r] = PyBool(FALSE)
        /\ outcome[r] = Raised("RuntimeError", "Invalid User Query")
        /\ sent[r] = <<>>

\* C2: the transport is invoked only after the gate has completed for the same
\* call and returned approved=true; no path (an exception inside the gate
\* included) and no argument of the call reaches the transport otherwise.
C2_SentOnlyAfterApproval ==
    \A r \in Reqs :
        sent[r] # <<>> =>
            /\ gateReturn[r] = PyBool(TRUE)
            /\ query[r] = Render(call[r])
            /\ Precedes(r, OracleCallEvent, TransportRequest)
            /\ Precedes(r, Log(parsed[r].reason), TransportRequest)

C2_Witness ==
    \E r \in Reqs :
        /\ Ended(r)
        /\ sent[r] # <<>>
        /\ call[r].other = OtherPayload

\* C3: the gate approves only when the oracle's structured output carries
\* approval=true; with the approval field missing the decision is approved=false
\* (approval defaults to false, reason to the empty string).
C3_ApprovalOnlyExplicit ==
    \A r \in Reqs :
        /\ gateReturn[r] = PyBool(TRUE) => raw[r].approval = "true"
        /\ sent[r] # <<>> => raw[r].approval = "true"
        /\ (parsed[r] # None /\ raw[r].approval = Missing) => ~ parsed[r].approval
        /\ (parsed[r] # None /\ raw[r].reason = Missing) => parsed[r].reason = ""
        /\ (GateLeft(r) /\ raw[r].approval = Missing) => gateReturn[r] # PyBool(TRUE)

C3_Witness ==
    \E r \in Reqs :
        /\ Ended(r)
        /\ raw[r] = [approval |-> Missing, reason |-> Missing]
        /\ gateReturn[r] = PyBool(FALSE)
        /\ parsed[r] = [approval |-> FALSE, reason |-> ""]

\* C4: if the oracle call times out, throws or returns output that cannot be
\* parsed, query_validator returns a denial (approved=false, reason "policy
\* oracle failure.") instead of raising.  Stated here by its consequence that
\* query_validator returns approved=false.
C4_OracleFailureIsDenial ==
    \A r \in Reqs :
        (Ended(r) /\ OracleFailed(r)) => gateReturn[r] = PyBool(FALSE)

\* C5: if the index returns zero chunks, the decision is approved=false (reason
\* "no policy context found."), whatever the oracle answers on an empty context.
\* Stated here by its consequence that such a call is never approved.
C5_EmptyIndexIsDenial ==
    \A r \in Reqs :
        (GateLeft(r) /\ EmptyContext(r)) =>
            /\ gateReturn[r] # PyBool(TRUE)
            /\ sent[r] = <<>>

\* C6: every internal gate failure is absorbed into a denial: the only failure
\* request() raises because of the gate is the one policy-violation error type;
\* embedding, retrieval and oracle exceptions never reach the caller.
C6_OnlyPolicyViolationRaised ==
    \A r \in Reqs :
        (Ended(r) /\ query[r] # NoQuery /\ sent[r] = <<>>) =>
            /\ outcome[r].kind = "raised"
            /\ outcome[r].type = "RuntimeError"

\* C7: when the gate denies a request, the failure request() raises carries the
\* reason text of the oracle's decision verbatim.
C7_FailureCarriesReason ==
    \A r \in Reqs :
        (Ended(r) /\ gateReturn[r] = PyBool(FALSE)) =>
            /\ outcome[r].kind = "raised"
            /\ outcome[r].msg = parsed[r].reason

\* C8: for every request, evaluate() returns exactly one decision value holding
\* the approved flag and a non-null reason string, both received by the caller.
C8_DecisionCarriesReason ==
    \A r \in Reqs :
        (Ended(r) /\ query[r] # NoQuery) =>
            /\ gateReturn[r] # NoValue
            /\ "reason" \in DOMAIN gateReturn[r]

\* C9: when the gate approves, the transport is invoked exactly once with the
\* method, url, positional and keyword arguments of the call, and request()
\* returns the transport's result (or raises the transport's error) unchanged.
C9_ForwardedUnchanged ==
    \A r \in Reqs :
        (gateReturn[r] = PyBool(TRUE) /\ pc[r] \in {"awaiting", "done"}) =>
            /\ sent[r] = <<call[r]>>
            /\ Ended(r) => /\ transportResult[r] # NoOutcome
                           /\ outcome[r] = transportResult[r]

C9_Witness ==
    \E r \in Reqs :
        /\ Ended(r)
        /\ gateReturn[r] = PyBool(TRUE)
        /\ call[r].json = JsonNone
        /\ outcome[r] = Returned("200 OK")

\* C10: the method, URL and body rendered into the gate's query are those of
\* the call that is forwarded on approval: a call that carries a non-empty body,
\* by whatever request argument, is never evaluated as if its body were empty.
C10_QueryRendersTheCall ==
    \A r \in Reqs :
        query[r] # NoQuery =>
            /\ query[r].method = call[r].method
            /\ query[r].url = call[r].url
            /\ HasBody(call[r]) => query[r].body # "{}"


\* number of occurrences of e in the events of r
Count(r, e) == Cardinality({i \in 1..Len(events[r]) : events[r][i] = e})

\* the similarity search of r has answered and the context is built
ContextBuilt(r) == HasEvent(r, Log("Similarity search done"))

\* request() rejected the call of r with its policy-violation failure
Rejected(r) ==
    /\ outcome[r].kind = "raised"
    /\ outcome[r].type = "RuntimeError"

Min(a, b) == IF a <= b THEN a ELSE b

\* C11: every denial is observable: for each request the guarded client
\* rejects, a log record with the denial's reason was emitted before the
\* failure is raised, on every path that leads to a denial.
C11_DenialReasonLogged ==
    \A r \in Reqs :
        /\ (pc[r] = "l134" /\ GateBlocks(gateReturn[r])) =>
               HasEvent(r, Log(parsed[r].reason))
        /\ Rejected(r) =>
               /\ gateReturn[r] = PyBool(FALSE)
               /\ HasEvent(r, Log(parsed[r].reason))

C11_Witness ==
    \E r \in Reqs :
        /\ Ended(r)
        /\ Rejected(r)
        /\ parsed[r].reason = "method not allowed by policy"
        /\ HasEvent(r, Log("method not allowed by policy"))

\* C12: an evaluation is a single attempt: at most one query of the index and
\* at most one oracle call, the oracle call after the index query, neither
\* repeated on failure; an evaluation that returns has made exactly one of each,
\* and the guarded client calls the gate once per request it decides.
C12_SingleAttempt ==
    \A r \in Reqs :
        /\ Count(r, GateCall) <= 1
        /\ Count(r, IndexQuery) <= 1
        /\ Count(r, OracleCallEvent) <= 1
        /\ HasEvent(r, OracleCallEvent) =>
               /\ Count(r, IndexQuery) = 1
               /\ Precedes(r, IndexQuery, OracleCallEvent)
        /\ HasEvent(r, IndexQuery) => Precedes(r, GateCall, IndexQuery)
        /\ (gateReturn[r] # NoValue \/ sent[r] # <<>> \/ Rejected(r)) =>
               /\ Count(r, GateCall) = 1
               /\ Count(r, IndexQuery) = 1
               /\ Count(r, OracleCallEvent) = 1

C12_Witness ==
    \E r \in Reqs :
        /\ Ended(r)
        /\ outcome[r].kind = "raised"
        /\ outcome[r].type \in OracleErrors
        /\ Count(r, OracleCallEvent) = 1
        /\ Count(r, IndexQuery) = 1

\* C13: no step of a gate evaluation, approved, denied or failed, changes the
\* set of chunks in the index.
C13_IndexNeverMutated == [][index' = index]_vars

C13_Witness ==
    \E r \in Reqs :
        /\ Ended(r)
        /\ Count(r, IndexQuery) = 1
        /\ docs[r] # <<>>
        /\ \E o \in Reqs \ {r} : HasEvent(o, IndexQuery) /\ ~ ContextBuilt(o)

\* C14: evaluations are independent: under every interleaving each request is
\* sent if and only if its own decision is approved=true, and its query text,
\* retrieved context and decision come from its own call and its own oracle
\* answer, whatever the other request in flight is doing.
C14_IndependentEvaluations ==
    \A r \in Reqs :
        /\ query[r] # NoQuery => query[r] = Render(call[r])
        /\ ContextBuilt(r) =>
               /\ docs[r] = Nearest(Render(call[r]), index, TopK)
               /\ context[r] = Join(docs[r])
        /\ gateReturn[r] # NoValue =>
               gateReturn[r] = PyBool(raw[r].approval = "true")
        /\ sent[r] # <<>> <=>
               (gateReturn[r] = PyBool(TRUE) /\ pc[r] \in {"awaiting", "done"})

C14_Witness ==
    \E r \in Reqs : \E o \in Reqs \ {r} :
        /\ pc[r] = "awaiting"
        /\ pc[o] = "l134"
        /\ gateReturn[o] = PyBool(FALSE)
        /\ query[o] # query[r]
        /\ docs[o] # docs[r]

\* C15: while one request's evaluation waits on the index or on the oracle,
\* another request issued through the same client can start its own
\* evaluation without waiting for the first to finish.
C15_EvaluationsOverlap ==
    \A r \in Reqs : \A o \in Reqs \ {r} :
        (pc[r] \in {"qv_l59", "qv_l91"} /\ pc[o] = "called") =>
            ENABLED RequestInitObservability(o)

\* C16: two evaluations of an identical (method, url, body), against an
\* unchanged index and a deterministic oracle, yield the same decision,
\* whatever other evaluations ran before or between them.
C16_SameInputSameDecision ==
    \A r \in Reqs : \A o \in Reqs :
        (gateReturn[r] # NoValue /\ gateReturn[o] # NoValue /\ query[r] = query[o]) =>
            /\ gateReturn[r] = gateReturn[o]
            /\ parsed[r] = parsed[o]

C16_Witness ==
    \E r \in Reqs : \E o \in Reqs \ {r} :
        /\ Ended(r)
        /\ pc[o] = "l134"
        /\ query[r] = query[o]
        /\ call[r] # call[o]
        /\ Cardinality(index) > TopK
        /\ gateReturn[r] = PyBool(FALSE)
        /\ gateReturn[o] = PyBool(FALSE)

\* C17: the context given to the oracle is exactly the texts of the
\* min(4, index size) chunks nearest to the query, nearest first, joined by a
\* blank line; no farther chunk appears and no threshold removes a near one.
C17_ContextIsTopK ==
    \A r \in Reqs :
        ContextBuilt(r) =>
            LET ds == docs[r]
                q  == Render(call[r])
            IN  /\ Len(ds) = Min(TopK, Cardinality(index))
                /\ \A i \in 1..Len(ds) : ds[i] \in index
                /\ \A i \in 1..Len(ds) : \A j \in 1..Len(ds) :
                       i < j => Distance(q, ds[i]) < Distance(q, ds[j])
                /\ \A c \in index :
                       (\A i \in 1..Len(ds) : ds[i] # c) =>
                           \A i \in 1..Len(ds) : Distance(q, ds[i]) < Distance(q, c)
                /\ context[r].sep = "\n\n"
                /\ Len(context[r].texts) = Len(ds)
                /\ \A i \in 1..Len(ds) : context[r].texts[i] = ChunkText(ds[i])

C17_Witness ==
    \E r \in Reqs :
        /\ ContextBuilt(r)
        /\ Cardinality(index) > TopK
        /\ Len(context[r].texts) = TopK
        /\ call[r].method # "GET"
        /\ docs[r][1] = Cardinality(index)

\* C18: in every server the client built for ServiceNow has certificate
\* verification disabled if and only if SERVICENOW_VERIFY_SSL is 'false', '0'
\* or 'no' in any letter case, and enabled when it is unset or anything else.
C18_VerifyRespectsEnv ==
    sslPc = "serving" =>
        (clientVerify = PyBool(FALSE) <=> Lower(sslEnv) \in {"false", "0", "no"})

\* C19: when a --stop run exits, none of the children that an earlier start
\* run launched and that were running when --stop was invoked still runs.
C19_StopTerminatesLaunched ==
    runPc["stop"] = "exited" =>
        \A t \in stopTargets :
            ~ (child[t[1]].st = "running" /\ child[t[1]].run = t[2])

\* C20: over any sequence of init_observability calls, logging, tracing,
\* metrics and instrumentation are configured at most once, every call that
\* returns gives the same logger, which is not None, and no later call
\* replaces the service name the first one set.
C20_InitialisedOnce ==
    /\ \A c \in {"logging", "tracing", "metrics", "instrumentation"} :
           configured[c] <= 1
    /\ \A i \in 1..Len(obsReturns) :
           obsReturns[i] # 0 /\ obsReturns[i] = obsReturns[1]
    /\ \A i \in 1..Len(serviceNames) : serviceNames[i] = serviceNames[1]

\* C23: when a start run of start_system.py has ended, on whatever path,
\* stop_system has gone through manager.processes and none of the recorded
\* processes still runs; a process was sent kill only directly after a wait
\* that followed terminate timed out.
C23_StopSystemOnEveryExit ==
    /\ runPc["start"] = "exited" =>
           \A i \in 1..Len(processes["start"]) :
               ~ PollIsNone(processes["start"][i])
    /\ \A p \in Components :
           \A i \in 1..Len(child[p].sigs) :
               child[p].sigs[i] = "kill" =>
                   /\ i > 2
                   /\ child[p].sigs[i - 1] = "timeout"
                   /\ child[p].sigs[i - 2] = "terminate"

C23_Witness ==
    /\ runPc["start"] = "exited"
    /\ startOk
    /\ Len(processes["start"]) = Len(Agents) + 1
    /\ \E p \in Components : child[p].sigs = <<"terminate", "timeout", "kill">>
    /\ \E p \in Components : child[p].sigs = <<"terminate">>

\* C27: with no --transport flag and SERVICENOW_TRANSPORT unset, the status
\* checker uses the PID directory of the startup script that started the
\* services and selects http with path /mcp/ after an HTTP start, sse with
\* path /sse after an SSE start.
C27_TransportFollowsStartup ==
    (statusPc = "checking" /\ statusCli = NoName /\ statusEnv = Unset
        /\ startedBy # "none") =>
        /\ statusPidDir = ServicenowPids
        /\ transport = startedBy
        /\ healthPath = (IF startedBy = "http" THEN "/mcp/" ELSE "/sse")

\* C21: in both startup scripts Magentic-UI is spawned only after both MCP
\* servers were spawned and each was seen alive by its post-launch check; once
\* a check has seen a server exited the UI is not spawned, and main, when it
\* returns, returns 1.
C21_UiAfterServersAlive ==
    /\ "ui" \in launched =>
           /\ McpServers \subseteq launched
           /\ \A s \in McpServers : observed[s] = "alive"
    /\ (\E s \in McpServers : observed[s] = "exited") =>
           /\ "ui" \notin launched
           /\ (launchPc = "exited" /\ launchRc # "sigint") => launchRc = "1"

C21_Witness ==
    /\ script = "daemon"
    /\ launchPc = "exited"
    /\ observed["table"] = "alive"
    /\ observed["knowledge"] = "exited"
    /\ launched = McpServers
    /\ launchRc = "1"

\* C22: when start_servicenow_sse_system.main has exited after spawning a
\* child, on whatever path, SIGINT at any point included, the list processes
\* is empty and every child it spawned has ended or has been sent terminate,
\* and kill only after the wait of 5 seconds timed out.
C22_EveryChildCleanedUp ==
    (script = "sse" /\ launchPc = "exited") =>
        /\ sseProcesses = <<>>
        /\ \A s \in launched :
               \/ svc[s].st # "running"
               \/ \E i \in 1..Len(svc[s].sigs) : svc[s].sigs[i] = "terminate"

\* C26: when start_servicenow_system.main has returned a non-zero status
\* after launching a service, stop_existing_services has run since: the three
\* PID files are gone and no launched service is left running without having
\* been signalled.
C26_FailedStartLeavesNothing ==
    (script = "daemon" /\ launchPc = "exited" /\ launchRc # "0" /\ launched # {}) =>
        /\ pidFiles = {}
        /\ \A s \in launched :
               \/ svc[s].st # "running"
               \/ \E i \in 1..Len(svc[s].sigs) : svc[s].sigs[i] = "terminate"

\* C24: kill_process_gracefully sends SIGKILL only after SIGTERM and after
\* each of the Timeout liveness polls that followed SIGTERM found the process
\* running; for a PID that is absent or not running at entry it sends nothing.
C24_KillOnlyAfterTermAndPolls ==
    /\ \A i \in 1..Len(trace) :
           trace[i] = "SIGKILL" =>
               /\ i = Timeout + 2
               /\ trace[1] = "SIGTERM"
               /\ \A j \in 2..(Timeout + 1) : trace[j] = "alive"
    /\ entryState \in {"absent", "not_running"} => trace = <<>>

C24_Witness ==
    /\ entryState = "running"
    /\ Len(trace) = Timeout + 2
    /\ trace[Timeout + 2] = "SIGKILL"

\* C25: stop_servicenow_system.main returns 0 only if no service process
\* that a PID file named when main began is still running.
C25_ZeroOnlyIfAllStopped ==
    (daemonPc = "exited" /\ daemonRc = "0") =>
        \A p \in entryPids :
            ~ (procs[p].st = "running" /\ procs[p].owner \in LaunchNames)

\* C28: a signal sent to a PID read from a PID file reaches only a process
\* that a startup script launched: a process that got the PID of a stale PID
\* file is never signalled.
C28_OnlyOwnProcessesSignalled ==
    \A p \in Pids : procs[p].owner = "other" => procs[p].sigs = <<>>

====
